---- MODULE Spec2Model ----
(***************************************************************************)
(* Media-Master: the segmented GOP encoder (video/transcode.py), its       *)
(* durable per-interval status file (util/config.py) and the per-title     *)
(* pipeline with the video/audio hand-off (transcode.py).                  *)
(*                                                                         *)
(* The specifications of the module:                                       *)
(*   PlanSpec       the segmentation plan as a function of its inputs      *)
(*   SegSpec        runs of the segmented encoder, crashes and restarts    *)
(*   SegTamperSpec  SegSpec with files and entries removed between runs    *)
(*   SegEditSpec    SegSpec with a key added to a status file between runs *)
(*   SegRegopSpec   SegSpec with gop_frame_cnt changed between runs        *)
(*   Spec           one title pipeline, threaded or sequential             *)
(*   FairSpec       the threaded title pipeline under a fair scheduler     *)
(*   BatchSpec      transcode_all_missions over a list of missions         *)
(*   FnSpec         episode_list expansion and frame-rate normalization    *)
(*   MuxSpec        multiplex_mkv called repeatedly for one output file    *)
(*   OutputFpsSpec  the frame rate of a CFR output                         *)
(*   ResortSpec     resort over track lists and order lists                *)
(*   SeriesSpec     the episodes of one series mission                     *)
(*   CheckSpec      the path pre-check of a batch                          *)
(*   OpusSpec       transcode_audio_opus with its ffmpeg step              *)
(*   ShortenSpec    shorten_inputfile_paths over the inputs of a title     *)
(*   ToolExitSpec   multiplex_mkv and extract_track_mkvextract by exit code*)
(***************************************************************************)
EXTENDS Integers, Sequences, FiniteSets, TLC

VARIABLES
    \* ---- PlanSpec: SegmentedConfigX265VspipeTranscoding as a function
    plan_pc,        \* "new" | "constructed" | "planned" | "issued" | "rejected"
    plan_in,        \* constructor arguments
    plan_first,     \* self._first_frame_index after __init__
    plan_last,      \* self._last_frame_index after __init__
    plan_list,      \* self._general_segmented_transcode_config_list
    plan_shards     \* shards in the order _transcode_configured_segment issues them

planVars == <<plan_pc, plan_in, plan_first, plan_last, plan_list, plan_shards>>

VARIABLES
    \* ---- SegSpec: runs of the segmented encoder over one cache directory
    seg_cfg,        \* constructor arguments of the encoder (the same in every run)
    disk_status,    \* the status files on disk: interval key -> content
    disk_gop,       \* the shard output files on disk (paths)
    disk_aux,       \* the scripts and logs on disk: <<shard path, suffix>>
    seg_pc,         \* position of the run, "idle" before the first
    seg_plan,       \* self._general_segmented_transcode_config_list
    seg_iv,         \* index of the current entry of seg_plan
    frame_index,    \* loop variable of _transcode_segment
    status_dict,    \* self._status_dict
    all_gop_filepath_list,  \* the list handed to gop_muxer
    gop_cache_dir_set,      \* self._gop_cache_dir_set
    restart_cnt,    \* restarts of the encoder command within the current encode
    run_no,         \* runs started so far
    fail_reason,    \* the exception that ended the run, "" if none
    \* history, not read by the program
    encode_log,     \* paths whose encode succeeded in the current run, in order
    skipped,        \* paths the current run skipped
    ever_encoded,   \* paths whose encode has ever succeeded
    done_at_start,  \* paths marked done on disk when the current run started
    prev_end,       \* how the previous run ended: "none" | "crashed" | "failed"
    tamper          \* what was removed by hand between runs

segVars == <<seg_cfg, disk_status, disk_gop, disk_aux, seg_pc, seg_plan, seg_iv, frame_index,
             status_dict, all_gop_filepath_list, gop_cache_dir_set, restart_cnt,
             run_no, fail_reason, encode_log, skipped, ever_encoded, done_at_start,
             prev_end, tamper>>

VARIABLES
    \* ---- Spec: CompleteVideoTranscoding.transcode() of one title
    pipe_cfg,       \* thread_bool, video_process_option, package_format,
                    \* frame_server
    io_complete,    \* self._state_info_dict["video_stream"]["io_complete"]
    thread_lock,    \* holder of self._thread_lock: "none" | "main" | "video"
    main_pc,        \* position of transcode()
    video_pc,       \* position of _video_stream_process
    audio_pc,       \* position of _audio_process
    flow_error,     \* the sub-flows that ended in an exception
    pipe_exc,       \* the exception that left transcode(), "" if none
    cache_files,    \* the files the pipeline wrote to the cache directory that
                    \* are on disk
    \* history, not read by the program
    video_io_done,  \* the video sub-flow has finished extracting / copying
    flow_ended,     \* the sub-flows that have returned or raised
    mux_state,      \* _multiplex_all: "none" | "ok" | "failed"
    cleaned,        \* _delete_cache_file has run
    track_files,    \* the cache files a TrackFile object was produced for
    encoder_exit,   \* exit of the last encoder command: "none" | "zero" | "nonzero"
    encode_returned,\* the encoder's transcode() has returned an output path
    encoder_runs,   \* the number of runs of the encoder command, modulo 2
    kept_files,     \* the files on disk that no stage of the pipeline registers
                    \* for removal: inputs, logs, the output
    output_text_track_file_list,    \* self._output_text_track_file_list
    output_audio_track_file_list,   \* self._output_audio_track_file_list
    track_info_list \* the tracks _multiplex_all hands to the muxer, in order

pipeVars == <<pipe_cfg, io_complete, thread_lock, main_pc, video_pc, audio_pc,
              flow_error, pipe_exc, cache_files, video_io_done, flow_ended,
              mux_state, cleaned, track_files, encoder_exit, encode_returned,
              encoder_runs, kept_files, output_text_track_file_list,
              output_audio_track_file_list, track_info_list>>

\* the lists of tracks
trackLists == <<output_text_track_file_list, output_audio_track_file_list,
                track_info_list>>

\* the history of the encoder command
encHist == <<encoder_exit, encode_returned, encoder_runs>>

VARIABLES
    \* ---- BatchSpec: transcode_all_missions over a list of "single" missions
    missions,       \* per mission, what the checks of its config will find
    batch_pc,       \* "off" | "validate" | "run" | "done" | "error"
    batch_i,        \* index of the mission the current loop is at
    mission_state,  \* per mission: "new" | "validated" | "started" | "tools"
                    \*              | "encoding" | "done" | "raised"
    batch_exc,      \* the exception that left transcode_all_missions, "" if none
    \* history, not read by the program
    tools_run       \* the missions whose pipeline has run an external tool

batchVars == <<missions, batch_pc, batch_i, mission_state, batch_exc, tools_run>>

VARIABLES
    \* ---- FnSpec: two functions of a string, applied to bounded inputs
    fn_kind,        \* "off" | "episode" | "fps" | "resort" | "output_fps"
    fn_arg,         \* the argument: a string, as the sequence of its characters
    fn_pc,          \* "new" | "applied" | "reapplied" | "raised"
    fn_res          \* the results of the successive applications

fnVars == <<fn_kind, fn_arg, fn_pc, fn_res>>

VARIABLES
    \* ---- MuxSpec: calls of multiplex_mkv on one output directory and name
    mux_pc,         \* position of the call: "off" | "idle" | "remove" |
                    \* "skip_check" | "start" | "running" | "exited"
    add_valid_mark_bool,    \* the argument of the current call
    output_file,    \* the file at output_filepath: "none" | "partial" | "complete"
    valid_output_file,      \* the file at valid_output_filepath, likewise
    return_code,    \* process.returncode of mkvmerge in the current call
    mux_result,     \* how the last call ended: "none" | "raised" | "killed",
                    \* or the path it returned and the file at that path
    mux_calls,      \* number of calls made
    \* history, not read by the program
    found_at_start  \* the file at output_filepath when mkvmerge was started

muxVars == <<mux_pc, add_valid_mark_bool, output_file, valid_output_file,
             return_code, mux_result, mux_calls, found_at_start>>

VARIABLES
    \* ---- SeriesSpec: SeriesVideoTranscoding.transcode over one series
    series_pc,      \* "off" | "new" | "loop" | "done" | "failed"
    episode_list,   \* self._episode_list
    video_info,     \* the keys of video_info: episodes with a matching video
    subtitle_info_list,     \* per external subtitle source, the keys it has
    audio_info_list,        \* per external audio source, the keys it has
    series_i,       \* position of the episode loop in episode_list
    series_warnings,        \* the kinds of warning issued so far
    series_done,    \* the episodes whose transcode() has returned, in order
    series_exc      \* the exception that left transcode(), "" if none

seriesVars == <<series_pc, episode_list, video_info, subtitle_info_list,
                audio_info_list, series_i, series_warnings, series_done,
                series_exc>>

VARIABLES
    \* ---- CheckSpec: the first loop of transcode_all_missions on the paths
    check_pc,       \* "off" | "validate" | "validated" | "raised"
    check_missions, \* per mission, its input path and its output path
    check_disk,     \* the files that exist, by absolute path
    all_output_filepath_set,    \* the local variable of transcode_all_missions
    check_i,        \* index of the mission the loop is at
    \* history, not read by the program
    check_accepted  \* the missions config_pre_check has returned for

checkVars == <<check_pc, check_missions, check_disk, all_output_filepath_set,
               check_i, check_accepted>>

VARIABLES
    \* ---- OpusSpec: one call of transcode_audio_opus
    opus_pc,        \* "off" | "new" | "flac" | "returned" | "raised"
    opus_arg,       \* the input's extension, delete_input_file_bool, and
                    \* whether the input is the file at the output path
    input_audio_filepath,   \* the local variable: "in" or "flac"
    opus_files,     \* the files that exist: "in", "flac", "out"
    opus_rc         \* process.returncode of the tool that ran last

opusVars == <<opus_pc, opus_arg, input_audio_filepath, opus_files, opus_rc>>

VARIABLES
    \* ---- ShortenSpec: CompleteVideoTranscoding.shorten_inputfile_paths
    shorten_pc,     \* "off" | "run" | "done" | "raised"
    shorten_i,      \* index in InputKinds of the input the method is at
    cache_len,      \* len(self._cache_dir)
    input_paths,    \* per kind of input, the path the config gave
    used_paths,     \* per kind of input, the path the config holds now
    cache_copies,   \* the files copy2new_dir has written
    remove_filepath_set     \* self._remove_filepath_set

shortenVars == <<shorten_pc, shorten_i, cache_len, input_paths, used_paths,
                 cache_copies, remove_filepath_set>>

VARIABLES
    \* ---- ToolExitSpec: extract_track_mkvextract
    extract_pc,     \* "off" | "running" | "exited" | "returned" | "raised"
    extract_rc,     \* process.returncode of mkvextract
    extract_result  \* the path the call returned and the exception it raised

extractVars == <<extract_pc, extract_rc, extract_result>>

vars == <<planVars, segVars, pipeVars, batchVars, fnVars, muxVars, seriesVars, checkVars, opusVars, shortenVars, extractVars>>

----------------------------------------------------------------------------
(* Bounds of the model *)

\* PlanSpec: frame indices of the constructor arguments range over 0..PlanMaxLast
PlanMaxLast == 4
\* PlanSpec: gop_frame_cnt ranges over 0..PlanMaxGop (0 is the rejected value)
PlanMaxGop == 2

----------------------------------------------------------------------------
(* Program constants *)

windows_cmd_max_length == 8191
windows_path_max_length == 256
hash_str_length == 6
max_path_length == 255

----------------------------------------------------------------------------
(* Helpers *)

Min(a, b) == IF a < b THEN a ELSE b

Range(s) == {s[i] : i \in DOMAIN s}

\* Python's round() of the non-negative quotient n/d: to nearest, ties to even.
Round(n, d) ==
    LET q == n \div d
        r == n % d
    IN  IF 2 * r < d THEN q
        ELSE IF 2 * r > d THEN q + 1
        ELSE IF q % 2 = 0 THEN q ELSE q + 1

\* Frame rates the source and the output can have; integer rates, for which
\* the float arithmetic of _match_output_fps is exact on the model's indices.
\* output_frame_rate_mode is "cfr" in all of them; out = src is the case of an
\* empty output_fps.
FpsPairs ==
    { [src |-> 24, out |-> 24], [src |-> 24, out |-> 60], [src |-> 60, out |-> 24] }

\* GopX265VspipeVideoTranscoding._match_output_fps, for one index:
\* round(index * output_fps_float / original_fps_float)
MatchOutputFps(index, fps) == Round(index * fps.out, fps.src)

\* One entry of general_segmented_transcode_config_list; template is
\* "configured" for an entry of segmented_transcode_config_list and "default"
\* for a gap filled with the encoder's own templates.
Entry(a, b, t) == [first_frame_index |-> a, last_frame_index |-> b, template |-> t]

\* list.sort(key = first_frame_index): Python's sort is stable.
RECURSIVE InsertByFirst(_, _)
InsertByFirst(e, s) ==
    IF s = <<>> THEN <<e>>
    ELSE IF e.first_frame_index < Head(s).first_frame_index
         THEN <<e>> \o s
         ELSE <<Head(s)>> \o InsertByFirst(e, Tail(s))

RECURSIVE SortByFirst(_)
SortByFirst(s) ==
    IF s = <<>> THEN <<>>
    ELSE InsertByFirst(s[Len(s)], SortByFirst(SubSeq(s, 1, Len(s) - 1)))

\* The loop of _init_segment_config_list over the sorted configured entries:
\* the gaps between consecutive entries, last_last_frame_index starting at -1.
RECURSIVE GapsBetween(_, _, _)
GapsBetween(s, i, last_last) ==
    IF i > Len(s) THEN <<>>
    ELSE IF last_last = -1 \/ last_last + 1 = s[i].first_frame_index
         THEN GapsBetween(s, i + 1, s[i].last_frame_index)
         ELSE <<Entry(last_last + 1, s[i].first_frame_index - 1, "default")>>
              \o GapsBetween(s, i + 1, s[i].last_frame_index)

\* The value of last_last_frame_index after that loop.
RECURSIVE LastLast(_, _, _)
LastLast(s, i, last_last) ==
    IF i > Len(s) THEN last_last
    ELSE LastLast(s, i + 1, s[i].last_frame_index)

\* SegmentedConfigX265VspipeTranscoding._init_segment_config_list: the
\* configured intervals sorted, the gaps (prefix, between, suffix) filled with
\* the default templates, and the whole sorted again.  No overlap check.
InitSegmentConfigList(configured, first, last) ==
    LET general == SortByFirst(configured)
        prefix  == IF general[1].first_frame_index > first
                   THEN <<Entry(first, general[1].first_frame_index - 1, "default")>>
                   ELSE <<>>
        between == GapsBetween(general, 1, -1)
        ll      == LastLast(general, 1, -1)
        suffix  == IF ll < last THEN <<Entry(ll + 1, last, "default")>> ELSE <<>>
    IN  IF general # <<>>
        THEN SortByFirst(general \o prefix \o between \o suffix)
        ELSE <<Entry(first, last, "default")>>

\* The shard the loop of _init_status_file / _transcode_segment forms at
\* the frame index of the iteration: gop_frame_cnt frames, cut at the interval's last frame.
ShardAt(index, last, gop_frame_cnt) ==
    <<index, Min(index + gop_frame_cnt - 1, last)>>

\* range(first, last + 1, gop_frame_cnt) as the sequence of shards.
RECURSIVE ShardsOfInterval(_, _, _)
ShardsOfInterval(first, last, gop_frame_cnt) ==
    IF first > last THEN <<>>
    ELSE <<ShardAt(first, last, gop_frame_cnt)>>
         \o ShardsOfInterval(first + gop_frame_cnt, last, gop_frame_cnt)

\* _transcode_configured_segment: every entry's endpoints go through
\* _match_output_fps, then the entry's shards are issued in order.
RECURSIVE IssuedShards(_, _, _, _)
IssuedShards(list, i, gop_frame_cnt, fps) ==
    IF i > Len(list) THEN <<>>
    ELSE ShardsOfInterval(MatchOutputFps(list[i].first_frame_index, fps),
                          MatchOutputFps(list[i].last_frame_index, fps),
                          gop_frame_cnt)
         \o IssuedShards(list, i + 1, gop_frame_cnt, fps)

\* The checks of SegmentedConfigX265VspipeTranscoding.__init__ on one
\* configured interval against the constructor's first/last frame index.
IntervalAccepted(iv, first, last) ==
    /\ iv.first_frame_index >= 0
    /\ iv.last_frame_index >= 0
    /\ iv.last_frame_index >= iv.first_frame_index
    /\ iv.last_frame_index <= last
    /\ iv.first_frame_index >= first

\* The checks of GopX265VspipeVideoTranscoding.__init__.
RangeAccepted(gop_frame_cnt, first, last) ==
    /\ gop_frame_cnt > 0
    /\ first >= 0
    /\ last >= 0
    /\ last >= first

\* The two length checks of _init_segment_config_list against the Windows
\* limits: the assumed shard path and the assumed gop_muxer command line.
\* sep is len(os.sep) = 1; 21 = len("-000000.hevc-gop-data"); 4 = len(".gop");
\* 13 = len("gop_muxer.exe").
LengthsAccepted(n_entries, cache_dir_len) ==
    /\ cache_dir_len + hash_str_length * 2 + 2 + 21 <= windows_path_max_length
    /\ n_entries * (cache_dir_len + hash_str_length * 2 + 2 + 4 + 1)
         + 13 + windows_path_max_length + 2 <= windows_cmd_max_length

----------------------------------------------------------------------------
(* SegSpec: the state of one cache directory and of the run over it *)

\* SegSpec: the video has 1..SegMaxLast+1 frames (last_frame_index <= SegMaxLast)
SegMaxLast == 2
\* SegSpec: gop_frame_cnt ranges over 1..SegMaxGop
SegMaxGop == 2
\* SegSpec: at most MaxRuns runs are started over the cache directory
MaxRuns == 2
\* SegSpec: the encoder command is restarted at most MaxRestart times per
\* encode in the model; the program itself has no such limit
MaxRestart == 2
\* SegSpec: at most MaxTamper files or entries are removed by hand
MaxTamper == 1

\* A status file: complete = FALSE is a file cut short (opened for writing and
\* not yet written).  gop_filepath_dict is the dict's keys in insertion order
\* (a shard's path is determined by its key); has_gop_filepath_dict says
\* whether the key "gop_filepath_dict" is present at all.  extra holds the
\* keys the encoder does not know, as <<key, value>>: the JSON text of the
\* value in a file, the Python value in self._status_dict.
StatusFile(g, bools, paths, has_paths) ==
    [ complete |-> TRUE, gop_frame_cnt |-> g, segment_transcode_bool_dict |-> bools,
      gop_filepath_dict |-> paths, has_gop_filepath_dict |-> has_paths,
      extra |-> {} ]

TruncatedFile ==
    [ complete |-> FALSE, gop_frame_cnt |-> 0, segment_transcode_bool_dict |-> <<>>,
      gop_filepath_dict |-> <<>>, has_gop_filepath_dict |-> FALSE, extra |-> {} ]

\* _init_gop_config: the cache directory (and the status file's name) of an
\* interval is the hash of the output name and "first_last"; the model takes
\* the pair itself (hash_name is assumed collision free).
GopCacheDir(first, last) == <<first, last>>

\* The output path of a shard: its interval's cache directory and the hash of
\* the output name and the segment identifier "first_last".
GopFilepath(dir, shard) == <<dir, shard>>

\* _init_status_file, no status file on disk: every shard of the interval
\* marked not transcoded, no gop_filepath_dict yet.
FreshStatus(first, last, g) ==
    StatusFile(g, [sh \in Range(ShardsOfInterval(first, last, g)) |-> FALSE], <<>>, FALSE)

\* A status update that marks the shard transcoded and enters no path.
MarkTranscodedUnlisted(st, shard) ==
    [ st EXCEPT !.segment_transcode_bool_dict = (shard :> TRUE) @@ @,
                !.has_gop_filepath_dict = TRUE ]

\* _transcode_segment after a shard's encode returned: the shard marked
\* transcoded, its path entered (appended when the key is new).
MarkTranscoded(st, shard) ==
    [ st EXCEPT !.segment_transcode_bool_dict = (shard :> TRUE) @@ @,
                !.gop_filepath_dict =
                    IF shard \in Range(@) THEN @ ELSE Append(@, shard),
                !.has_gop_filepath_dict = TRUE ]

\* list(self._status_dict["gop_filepath_dict"].values())
GopFilepathValues(st, dir) ==
    [ i \in DOMAIN st.gop_filepath_dict |-> GopFilepath(dir, st.gop_filepath_dict[i]) ]

\* The paths a complete status file marks transcoded.
DoneIn(dir, st) ==
    { GopFilepath(dir, sh) : sh \in { x \in DOMAIN st.segment_transcode_bool_dict :
                                          st.segment_transcode_bool_dict[x] } }

DoneOnDisk ==
    UNION { IF disk_status[d].complete THEN DoneIn(d, disk_status[d]) ELSE {}
            : d \in DOMAIN disk_status }

\* Two intervals share a frame index.
Overlap(a, b) ==
    /\ a.first_frame_index <= b.last_frame_index
    /\ b.first_frame_index <= a.last_frame_index

HasOverlap(configured) ==
    \E i \in DOMAIN configured : \E j \in DOMAIN configured :
        i # j /\ Overlap(configured[i], configured[j])

SegIntervals(last) ==
    { Entry(a, b, "configured") : a \in 0..last, b \in 0..last }

\* The arguments of the runs: first_frame_index = 0 and last_frame_index =
\* frame_count - 1 as CompleteVideoTranscoding passes them, output rate equal
\* to the source rate (no rescaling), a short cache directory name, and a
\* segmented_transcode_config_list of no, one or two intervals that
\* __init__ accepts.  An empty list is GopX265VspipeVideoTranscoding.
SegConfigs ==
    UNION { [ last : {l}, gop_frame_cnt : 1..SegMaxGop,
              fps : {[src |-> 24, out |-> 24]}, cache_dir_len : {40},
              configured :
                  {<<>>}
                  \cup { <<i>> : i \in { x \in SegIntervals(l) : IntervalAccepted(x, 0, l) } }
                  \cup { <<i, j>> : i \in { x \in SegIntervals(l) : IntervalAccepted(x, 0, l) },
                                    j \in { x \in SegIntervals(l) : IntervalAccepted(x, 0, l) } } ]
            : l \in 0..SegMaxLast }

SegRunning ==
    { "plan", "interval", "init_write", "segment", "encode", "mark", "save_write",
      "merge", "delete" }

SegMemoryReset ==
    /\ seg_plan' = <<>>
    /\ seg_iv' = 0
    /\ frame_index' = 0
    /\ status_dict' = TruncatedFile
    /\ all_gop_filepath_list' = <<>>
    /\ gop_cache_dir_set' = {}
    /\ restart_cnt' = 0

SegInit ==
    /\ seg_cfg \in SegConfigs
    /\ disk_status = <<>>
    /\ disk_gop = {}
    /\ disk_aux = {}
    /\ seg_pc = "idle"
    /\ seg_plan = <<>>
    /\ seg_iv = 0
    /\ frame_index = 0
    /\ status_dict = TruncatedFile
    /\ all_gop_filepath_list = <<>>
    /\ gop_cache_dir_set = {}
    /\ restart_cnt = 0
    /\ run_no = 0
    /\ fail_reason = ""
    /\ encode_log = <<>>
    /\ skipped = {}
    /\ ever_encoded = {}
    /\ done_at_start = {}
    /\ prev_end = "none"
    /\ tamper = [kind |-> "none", path |-> <<>>, n |-> 0]

SegOff ==
    /\ seg_cfg = [last |-> 0, gop_frame_cnt |-> 1, configured |-> <<>>,
                  fps |-> [src |-> 24, out |-> 24], cache_dir_len |-> 40]
    /\ disk_status = <<>>
    /\ disk_gop = {}
    /\ disk_aux = {}
    /\ seg_pc = "off"
    /\ seg_plan = <<>>
    /\ seg_iv = 0
    /\ frame_index = 0
    /\ status_dict = TruncatedFile
    /\ all_gop_filepath_list = <<>>
    /\ gop_cache_dir_set = {}
    /\ restart_cnt = 0
    /\ run_no = 0
    /\ fail_reason = ""
    /\ encode_log = <<>>
    /\ skipped = {}
    /\ ever_encoded = {}
    /\ done_at_start = {}
    /\ prev_end = "none"
    /\ tamper = [kind |-> "none", path |-> <<>>, n |-> 0]

----------------------------------------------------------------------------
(* Spec: the state of one title pipeline *)

\* The files of the user that can lie in cache_dir under a name that contains
\* the file name of the input video: the output when output_video_dir is
\* cache_dir, another input when the inputs are kept in cache_dir.
SweepCandidates == {"output", "other_input"}

\* The configurations of a title that decide the path through transcode(),
\* _video_stream_process and _delete_cache_file; name_match holds the files
\* of SweepCandidates that do lie in cache_dir under such a name.
PipeConfigs ==
    [ thread_bool : BOOLEAN, video_process_option : {"copy", "transcode"},
      package_format : {"mkv", "mp4"}, frame_server : {"vspipe", ""},
      name_match : SUBSET SweepCandidates,
      audio_prior_option : {"internal", "external"},
      subtitle_prior_option : {"internal", "external"} ]

\* CompleteVideoTranscoding.__init__: io_complete False, the lock free.
PipeInit ==
    /\ pipe_cfg \in PipeConfigs
    /\ io_complete = FALSE
    /\ thread_lock = "none"
    /\ main_pc = "pre_multiplex"
    /\ video_pc = "idle"
    /\ audio_pc = "idle"
    /\ flow_error = {}
    /\ pipe_exc = ""
    /\ video_io_done = FALSE
    /\ cache_files = {}
    /\ flow_ended = {}
    /\ mux_state = "none"
    /\ cleaned = FALSE
    /\ track_files = {}
    /\ encoder_exit = "none"
    /\ encode_returned = FALSE
    /\ encoder_runs = 0
    /\ kept_files = {"input_video", "other_input"}
    /\ output_text_track_file_list = <<>>
    /\ output_audio_track_file_list = <<>>
    /\ track_info_list = <<>>

PipeOff ==
    /\ pipe_cfg = [thread_bool |-> FALSE, video_process_option |-> "copy",
                   package_format |-> "mkv", frame_server |-> "vspipe",
                   name_match |-> {}, audio_prior_option |-> "internal",
                   subtitle_prior_option |-> "internal"]
    /\ io_complete = FALSE
    /\ thread_lock = "none"
    /\ main_pc = "off"
    /\ video_pc = "idle"
    /\ audio_pc = "idle"
    /\ flow_error = {}
    /\ pipe_exc = ""
    /\ video_io_done = FALSE
    /\ cache_files = {}
    /\ flow_ended = {}
    /\ mux_state = "none"
    /\ cleaned = FALSE
    /\ track_files = {}
    /\ encoder_exit = "none"
    /\ encode_returned = FALSE
    /\ encoder_runs = 0
    /\ kept_files = {}
    /\ output_text_track_file_list = <<>>
    /\ output_audio_track_file_list = <<>>
    /\ track_info_list = <<>>

\* ---- the batch of missions

\* number of missions of a batch: 1..MaxMissions
MaxMissions == 3

\* What the two places that check a mission's config will find:
\* config_pre_check (enumerated values, ranges, files) and the encoder's
\* constructor (the placeholders of transcoding_cmd_param_template).
MissionConfigs == [pre_check_ok : BOOLEAN, template_ok : BOOLEAN]

BatchInit ==
    /\ \E n \in 1..MaxMissions : missions \in [1..n -> MissionConfigs]
    /\ batch_pc = "validate"
    /\ batch_i = 1
    /\ mission_state = [i \in DOMAIN missions |-> "new"]
    /\ batch_exc = ""
    /\ tools_run = {}

BatchOff ==
    /\ missions = <<>>
    /\ batch_pc = "off"
    /\ batch_i = 1
    /\ mission_state = <<>>
    /\ batch_exc = ""
    /\ tools_run = {}

\* ---- the functions of a string

\* episodes of an episode_list string range over 0..MaxEpisode
MaxEpisode == 11

Digits == <<"0", "1", "2", "3", "4", "5", "6", "7", "8", "9">>

IsDigit(c) == \E k \in DOMAIN Digits : Digits[k] = c

DigitVal(c) == (CHOOSE k \in DOMAIN Digits : Digits[k] = c) - 1

\* int(s) for a string of decimal digits
RECURSIVE ParseInt(_)
ParseInt(s) ==
    IF s = <<>> THEN 0
    ELSE 10 * ParseInt(SubSeq(s, 1, Len(s) - 1)) + DigitVal(s[Len(s)])

\* str(n) of an int n >= 0, as in an f-string
RECURSIVE Str(_)
Str(n) ==
    IF n < 10 THEN <<Digits[n + 1]>>
    ELSE Str(n \div 10) \o <<Digits[(n % 10) + 1]>>

\* the string "A~B"
EpisodeStr(a, b) == Str(a) \o <<"~">> \o Str(b)

\* the string "n/d"
Frac(n, d) == Str(n) \o <<"/">> \o Str(d)

\* The episode_list strings: every "A~B", and strings the pattern rejects.
EpisodeStrings ==
    {EpisodeStr(a, b) : a, b \in 0..MaxEpisode}
        \cup {<<"~", "3">>, <<"3", "~">>, <<"3", "-", "1">>}

\* The frame rates MediaInfo reports: "num/den" from framerate_num and
\* framerate_den, or the scalar frame_rate with up to three decimals.
FpsStrings ==
    {Frac(n, d) : n \in {24, 25, 30, 48, 23976, 24000, 29970, 30000, 59940, 60000},
                  d \in {1, 2, 1000, 1001}}
        \cup {Str(i) : i \in {23, 24, 29, 59}}
        \cup {Str(i) \o <<".">> \o f :
                  i \in {23, 24, 29, 59},
                  f \in {<<"0">>, <<"5">>, <<"9", "4">>, <<"9", "7">>, <<"9", "7", "6">>}}

FnInit ==
    /\ fn_kind \in {"episode", "fps"}
    /\ fn_arg \in (IF fn_kind = "episode" THEN EpisodeStrings ELSE FpsStrings)
    /\ fn_pc = "new"
    /\ fn_res = <<>>

FnOff ==
    /\ fn_kind = "off"
    /\ fn_arg = <<>>
    /\ fn_pc = "new"
    /\ fn_res = <<>>

\* ---- the frame rate of a CFR output

\* The frame rates of a source as get_proper_frame_rate gives them, in
\* lowest terms, as <<fps_num, fps_den>>.
SourceFps ==
    {<<24, 1>>, <<25, 1>>, <<30, 1>>, <<60, 1>>, <<24000, 1001>>,
     <<30000, 1001>>, <<60000, 1001>>, <<25, 2>>, <<47, 2>>, <<2997, 100>>,
     <<2997, 125>>, <<15, 1>>}

\* The N of an output_fps "Nfps".
OutputFpsN == {24, 25, 30, 48, 60, 120}

\* output_fps of the config: empty, "Nfps", or a frame rate as it stands.
OutputFpsInit ==
    /\ fn_kind = "output_fps"
    /\ fn_arg \in [original_fps : {Frac(f[1], f[2]) : f \in SourceFps},
                   output_fps : {<<>>, Frac(24000, 1001)}
                                   \cup {Str(n) \o <<"f", "p", "s">> : n \in OutputFpsN}
                                   \cup {<<"2", "3", ".", "9", "7", "6", "f", "p", "s">>}]
    /\ fn_pc = "new"
    /\ fn_res = <<>>

\* ---- the order of a track list

\* longest track list whose reordering is modelled
MaxSrcLen == 3

\* The arguments of resort: a list of up to MaxSrcLen tracks, two of them
\* equal or not, and an order list of ints.
ResortInit ==
    /\ fn_kind = "resort"
    /\ fn_arg \in [src : UNION {[1..n -> {"a", "b", "c"}] : n \in 0..MaxSrcLen},
                   order_list : UNION {[1..n -> 0..MaxSrcLen] : n \in 0..MaxSrcLen}]
    /\ fn_pc = "new"
    /\ fn_res = <<>>

\* ---- the status file as JSON text

\* repr of the float a decimal text is read as: the zeros that end the
\* fraction are dropped, one digit stays after the point.
RECURSIVE FloatRepr(_)
FloatRepr(text) ==
    IF text[Len(text)] = "0" /\ text[Len(text) - 1] # "."
    THEN FloatRepr(SubSeq(text, 1, Len(text) - 1))
    ELSE text

\* json.loads on the text of a value: a string, true, false, null, a number
\* with a fraction (float) or without (int).  A value is its type and repr.
JsonLoads(text) ==
    IF text[1] = "\""
    THEN [type |-> "str", repr |-> SubSeq(text, 2, Len(text) - 1)]
    ELSE IF text = <<"t", "r", "u", "e">> THEN [type |-> "bool", repr |-> <<"T", "r", "u", "e">>]
    ELSE IF text = <<"f", "a", "l", "s", "e">> THEN [type |-> "bool", repr |-> <<"F", "a", "l", "s", "e">>]
    ELSE IF text = <<"n", "u", "l", "l">> THEN [type |-> "NoneType", repr |-> <<"N", "o", "n", "e">>]
    ELSE IF \E i \in DOMAIN text : text[i] = "."
         THEN [type |-> "float", repr |-> FloatRepr(text)]
         ELSE [type |-> "int", repr |-> text]

\* json.dumps on a value
JsonDumps(value) ==
    CASE value.type = "str" -> <<"\"">> \o value.repr \o <<"\"">>
      [] value.type = "bool" -> IF value.repr = <<"T", "r", "u", "e">> THEN <<"t", "r", "u", "e">> ELSE <<"f", "a", "l", "s", "e">>
      [] value.type = "NoneType" -> <<"n", "u", "l", "l">>
      [] OTHER -> value.repr

\* A status written with the keys of the encoder only.
KnownKeysOnly(st) == [ st EXCEPT !.extra = {} ]

\* save_config: json.dumps of the whole dict
ToDisk(st) == [ st EXCEPT !.extra = { <<kv[1], JsonDumps(kv[2])>> : kv \in @ } ]

\* load_config: json.loads of the whole file
FromDisk(file) ==
    [ file EXCEPT !.extra = { <<kv[1], JsonLoads(kv[2])>> : kv \in @ } ]

\* The values a status file is given by hand under a key of its own.
JsonTexts == { <<"t", "r", "u", "e">>, <<"1", ".", "5", "0">>, <<"\"", "a", "\"">> }

\* ---- the muxer with a valid mark

\* number of calls of multiplex_mkv: 0..MaxCalls
MaxCalls == 3

\* The output directory before the first call: empty, or holding what a
\* killed mkvmerge of an earlier process left at output_filepath.
MuxInit ==
    /\ mux_pc = "idle"
    /\ add_valid_mark_bool = FALSE
    /\ output_file \in {"none", "partial"}
    /\ valid_output_file = "none"
    /\ return_code = 0
    /\ mux_result = [end |-> "none", path |-> "", file |-> "none"]
    /\ mux_calls = 0
    /\ found_at_start = "none"

MuxOff ==
    /\ mux_pc = "off"
    /\ add_valid_mark_bool = FALSE
    /\ output_file = "none"
    /\ valid_output_file = "none"
    /\ return_code = 0
    /\ mux_result = [end |-> "none", path |-> "", file |-> "none"]
    /\ mux_calls = 0
    /\ found_at_start = "none"

\* ---- the extraction of a track

ExtractInit ==
    /\ extract_pc = "running"
    /\ extract_rc = 0
    /\ extract_result = [path |-> "", exc |-> "none"]

ExtractOff ==
    /\ extract_pc = "off"
    /\ extract_rc = 0
    /\ extract_result = [path |-> "", exc |-> "none"]

\* ---- the paths of a batch

\* number of missions of a batch whose paths are modelled: 1..MaxPathMissions
MaxPathMissions == 2

\* A path as written in the config: relative to the working directory or
\* absolute, and the file it names.
ConfigPaths == {"rel", "abs"} \X {"a", "b"}

\* os.path.abspath: both ways of writing give the one absolute path.
AbsPath(path) == path[2]

\* "single" missions that pass every check of config_pre_check other than
\* the one on input_video_filepath; output is os.path.join(output_video_dir,
\* output_video_name + "." + package_format).
PathMissions == [input : ConfigPaths, output : ConfigPaths]

CheckInit ==
    /\ check_pc = "validate"
    /\ \E n \in 1..MaxPathMissions : check_missions \in [1..n -> PathMissions]
    /\ check_disk \in SUBSET {"a", "b"}
    /\ all_output_filepath_set = {}
    /\ check_i = 1
    /\ check_accepted = {}

CheckOff ==
    /\ check_pc = "off"
    /\ check_missions = <<>>
    /\ check_disk = {}
    /\ all_output_filepath_set = {}
    /\ check_i = 1
    /\ check_accepted = {}

\* ---- the opus transcode

opusenc_support_suffix_set == {".opus", ".flac", ".wav"}

\* The calls of the model: an input with one of these extensions, with or
\* without delete_input_file_bool; an .opus input may be the very file the
\* output path names.
OpusArgs ==
    { a \in [ ext : opusenc_support_suffix_set \cup {".aac", ".ac3", ".dts", ".m4a", ".mka"},
              delete_input_file_bool : BOOLEAN, same : BOOLEAN ] :
          a.same => a.ext = ".opus" }

\* os.path.join(output_audio_dir, output_audio_name + ".opus")
OpusOutputFilepath == IF opus_arg.same THEN "in" ELSE "out"

OpusInit ==
    /\ opus_pc = "new"
    /\ opus_arg \in OpusArgs
    /\ input_audio_filepath = "in"
    /\ opus_files = {"in"}
    /\ opus_rc = 0

OpusOff ==
    /\ opus_pc = "off"
    /\ opus_arg = [ext |-> ".opus", delete_input_file_bool |-> FALSE, same |-> FALSE]
    /\ input_audio_filepath = "in"
    /\ opus_files = {}
    /\ opus_rc = 0

\* ---- the input paths of a title

\* The inputs in the order shorten_inputfile_paths goes through them; one
\* external subtitle, audio and attachment each.
InputKinds == <<"subtitle", "audio", "chapter", "attachment", "video">>

\* A path as its directory and the lengths of directory and file name.
PathOf(dir, dir_len, name_len) ==
    [dir |-> dir, dir_len |-> dir_len, name_len |-> name_len]

\* len(filepath): directory, separator, file name
PathLen(path) == path.dir_len + 1 + path.name_len

\* An input of usual length, one under a long directory and one with a long
\* file name.
InputPaths == { PathOf("input", 40, 20), PathOf("input", 240, 20),
                PathOf("input", 10, 250) }

ShortenInit ==
    /\ shorten_pc = "run"
    /\ shorten_i = 1
    /\ cache_len \in {30, 240}
    /\ input_paths \in [Range(InputKinds) -> InputPaths]
    /\ used_paths = input_paths
    /\ cache_copies = {}
    /\ remove_filepath_set = {}

ShortenOff ==
    /\ shorten_pc = "off"
    /\ shorten_i = 1
    /\ cache_len = 0
    /\ input_paths = <<>>
    /\ used_paths = <<>>
    /\ cache_copies = {}
    /\ remove_filepath_set = {}

\* ---- the series

\* the episodes of the model: 1..MaxSeriesEpisode
MaxSeriesEpisode == 3

\* The episode lists of the model: one or two different episodes.
EpisodeLists ==
    { <<a>> : a \in 1..MaxSeriesEpisode }
        \cup { <<p[1], p[2]>> :
                   p \in { q \in (1..MaxSeriesEpisode) \X (1..MaxSeriesEpisode) :
                              q[1] # q[2] } }

\* What the directories of an external source can give: nothing configured,
\* or one source whose file names match for some episodes (config_pre_check
\* has seen a match in every configured directory).
InfoLists ==
    {<<>>} \cup { <<keys>> : keys \in (SUBSET (1..MaxSeriesEpisode)) \ {{}} }

SeriesInit ==
    /\ series_pc = "new"
    /\ episode_list \in EpisodeLists
    /\ video_info \in (SUBSET (1..MaxSeriesEpisode)) \ {{}}
    /\ subtitle_info_list \in InfoLists
    /\ audio_info_list \in InfoLists
    /\ series_i = 1
    /\ series_warnings = {}
    /\ series_done = <<>>
    /\ series_exc = ""

SeriesOff ==
    /\ series_pc = "off"
    /\ episode_list = <<>>
    /\ video_info = {}
    /\ subtitle_info_list = <<>>
    /\ audio_info_list = <<>>
    /\ series_i = 1
    /\ series_warnings = {}
    /\ series_done = <<>>
    /\ series_exc = ""

----------------------------------------------------------------------------
(* PlanSpec: the plan as a function of the constructor's arguments *)

PlanIndex == 0..PlanMaxLast

PlanIntervals ==
    { Entry(a, b, "configured") : a \in PlanIndex, b \in PlanIndex }

\* segmented_transcode_config_list flattened: no, one or two intervals
PlanLists ==
    {<<>>} \cup { <<i>> : i \in PlanIntervals }
           \cup { <<i, j>> : i \in PlanIntervals, j \in PlanIntervals }

\* cache_dir_len is len(frame_server_script_cache_dir): a usual one and one
\* beyond the limit.
PlanInit ==
    /\ plan_pc = "new"
    /\ plan_in \in [ first : 0..1, last : PlanIndex, gop_frame_cnt : 0..PlanMaxGop,
                     configured : PlanLists, fps : FpsPairs,
                     cache_dir_len : {40, 230} ]
    /\ plan_first = -1
    /\ plan_last = -1
    /\ plan_list = <<>>
    /\ plan_shards = <<>>

PlanIdle ==
    /\ plan_pc = "off"
    /\ plan_in = [ first |-> 0, last |-> 0, gop_frame_cnt |-> 1, configured |-> <<>>,
                   fps |-> [src |-> 24, out |-> 24], cache_dir_len |-> 40 ]
    /\ plan_first = -1
    /\ plan_last = -1
    /\ plan_list = <<>>
    /\ plan_shards = <<>>

\* SegmentedConfigX265VspipeTranscoding.__init__ and, through super(),
\* GopX265VspipeVideoTranscoding.__init__, which ends in _match_output_fps.
PlanConstruct ==
    /\ plan_pc = "new"
    /\ \A i \in DOMAIN plan_in.configured :
           IntervalAccepted(plan_in.configured[i], plan_in.first, plan_in.last)
    /\ RangeAccepted(plan_in.gop_frame_cnt, plan_in.first, plan_in.last)
    /\ plan_pc' = "constructed"
    /\ plan_first' = MatchOutputFps(plan_in.first, plan_in.fps)
    /\ plan_last' = MatchOutputFps(plan_in.last, plan_in.fps)
    /\ UNCHANGED <<plan_in, plan_list, plan_shards>>
    /\ UNCHANGED <<segVars, pipeVars, batchVars, fnVars, muxVars, seriesVars, checkVars, opusVars, shortenVars, extractVars>>

\* The same constructors raising TypeError / RangeError / ValueError.
PlanReject ==
    /\ plan_pc = "new"
    /\ \/ \E i \in DOMAIN plan_in.configured :
              ~IntervalAccepted(plan_in.configured[i], plan_in.first, plan_in.last)
       \/ ~RangeAccepted(plan_in.gop_frame_cnt, plan_in.first, plan_in.last)
    /\ plan_pc' = "rejected"
    /\ UNCHANGED <<plan_in, plan_first, plan_last, plan_list, plan_shards>>
    /\ UNCHANGED <<segVars, pipeVars, batchVars, fnVars, muxVars, seriesVars, checkVars, opusVars, shortenVars, extractVars>>

\* transcode(): _init_segment_config_list
PlanInitSegmentConfigList ==
    /\ plan_pc = "constructed"
    /\ LET list == InitSegmentConfigList(plan_in.configured, plan_first, plan_last)
       IN  IF LengthsAccepted(Len(list), plan_in.cache_dir_len)
           THEN /\ plan_pc' = "planned"
                /\ plan_list' = list
           ELSE /\ plan_pc' = "rejected"
                /\ plan_list' = plan_list
    /\ UNCHANGED <<plan_in, plan_first, plan_last, plan_shards>>
    /\ UNCHANGED <<segVars, pipeVars, batchVars, fnVars, muxVars, seriesVars, checkVars, opusVars, shortenVars, extractVars>>

\* transcode(): _transcode_configured_segment, every shard issued
PlanIssue ==
    /\ plan_pc = "planned"
    /\ plan_pc' = "issued"
    /\ plan_shards' = IssuedShards(plan_list, 1, plan_in.gop_frame_cnt, plan_in.fps)
    /\ UNCHANGED <<plan_in, plan_first, plan_last, plan_list>>
    /\ UNCHANGED <<segVars, pipeVars, batchVars, fnVars, muxVars, seriesVars, checkVars, opusVars, shortenVars, extractVars>>

PlanNext ==
    \/ PlanConstruct
    \/ PlanReject
    \/ PlanInitSegmentConfigList
    \/ PlanIssue

PlanSpecInit == PlanInit /\ SegOff /\ PipeOff /\ BatchOff /\ FnOff /\ MuxOff /\ SeriesOff /\ CheckOff /\ OpusOff /\ ShortenOff /\ ExtractOff

PlanSpec == PlanSpecInit /\ [][PlanNext]_vars

----------------------------------------------------------------------------
(* SegSpec: the actions of a run *)

segHist == <<encode_log, skipped, ever_encoded, done_at_start, prev_end, tamper>>

\* The entry of the plan being processed, its cache directory, the shard at
\* the loop variable and that shard's output path.
CurFirst == MatchOutputFps(seg_plan[seg_iv].first_frame_index, seg_cfg.fps)
CurLast == MatchOutputFps(seg_plan[seg_iv].last_frame_index, seg_cfg.fps)
CurDir == GopCacheDir(CurFirst, CurLast)
CurShard == ShardAt(frame_index, CurLast, seg_cfg.gop_frame_cnt)
CurPath == GopFilepath(CurDir, CurShard)

\* An exception leaves transcode(): the encoder object is dropped.
SegFail(reason) ==
    /\ seg_pc' = "failed"
    /\ fail_reason' = reason
    /\ SegMemoryReset

\* The program is started: transcode() of a newly constructed encoder over
\* whatever the cache directory holds.
SegStart ==
    /\ seg_pc \in {"idle", "crashed", "failed"}
    /\ run_no < MaxRuns
    /\ run_no' = run_no + 1
    /\ seg_pc' = "plan"
    /\ fail_reason' = ""
    /\ SegMemoryReset
    /\ encode_log' = <<>>
    /\ skipped' = {}
    /\ done_at_start' = DoneOnDisk
    /\ prev_end' = IF seg_pc = "idle" THEN "none" ELSE seg_pc
    /\ UNCHANGED <<seg_cfg, disk_status, disk_gop, ever_encoded, tamper>>
    /\ UNCHANGED <<planVars, pipeVars, batchVars, fnVars, muxVars, seriesVars, checkVars, opusVars, shortenVars, extractVars>>
    /\ UNCHANGED disk_aux

\* __init__ (ending in _match_output_fps) and, for a non-empty
\* segmented_transcode_config_list, _init_segment_config_list with its two
\* length checks; GopX265VspipeVideoTranscoding has the one interval.
SegPlan ==
    /\ seg_pc = "plan"
    /\ LET first == MatchOutputFps(0, seg_cfg.fps)
           last  == MatchOutputFps(seg_cfg.last, seg_cfg.fps)
           list  == IF seg_cfg.configured = <<>>
                    THEN <<Entry(first, last, "default")>>
                    ELSE InitSegmentConfigList(seg_cfg.configured, first, last)
       IN  IF seg_cfg.configured = <<>>
              \/ LengthsAccepted(Len(list), seg_cfg.cache_dir_len)
           THEN /\ seg_plan' = list
                /\ seg_iv' = 1
                /\ seg_pc' = "interval"
                /\ fail_reason' = fail_reason
                /\ UNCHANGED <<frame_index, status_dict, all_gop_filepath_list,
                               gop_cache_dir_set, restart_cnt>>
           ELSE SegFail("RuntimeError")
    /\ UNCHANGED <<seg_cfg, disk_status, disk_gop, run_no>>
    /\ UNCHANGED segHist
    /\ UNCHANGED <<planVars, pipeVars, batchVars, fnVars, muxVars, seriesVars, checkVars, opusVars, shortenVars, extractVars>>
    /\ UNCHANGED disk_aux

\* A loop over the plan that may be left before its last entry.
SegIntervalsDoneEarly ==
    /\ seg_pc = "interval"
    /\ seg_pc' = "merge"
    /\ UNCHANGED <<seg_cfg, disk_status, disk_gop, seg_plan, seg_iv, frame_index,
                   status_dict, all_gop_filepath_list, gop_cache_dir_set, restart_cnt,
                   run_no, fail_reason>>
    /\ UNCHANGED segHist
    /\ UNCHANGED <<planVars, pipeVars, batchVars, fnVars, muxVars, seriesVars, checkVars, opusVars, shortenVars, extractVars>>
    /\ UNCHANGED disk_aux

\* _transcode_configured_segment: no entry is left.
SegIntervalsDone ==
    /\ seg_pc = "interval"
    /\ seg_iv > Len(seg_plan)
    /\ seg_pc' = "merge"
    /\ UNCHANGED <<seg_cfg, disk_status, disk_gop, seg_plan, seg_iv, frame_index,
                   status_dict, all_gop_filepath_list, gop_cache_dir_set, restart_cnt,
                   run_no, fail_reason>>
    /\ UNCHANGED segHist
    /\ UNCHANGED <<planVars, pipeVars, batchVars, fnVars, muxVars, seriesVars, checkVars, opusVars, shortenVars, extractVars>>
    /\ UNCHANGED disk_aux

\* _init_gop_config and _init_status_file, the status file exists and parses.
SegInitStatusLoad ==
    /\ seg_pc = "interval"
    /\ seg_iv <= Len(seg_plan)
    /\ CurDir \in DOMAIN disk_status
    /\ disk_status[CurDir].complete
    /\ status_dict' = FromDisk(disk_status[CurDir])
    /\ gop_cache_dir_set' = gop_cache_dir_set \cup {CurDir}
    /\ frame_index' = CurFirst
    /\ seg_pc' = "segment"
    /\ UNCHANGED <<seg_cfg, disk_status, disk_gop, seg_plan, seg_iv,
                   all_gop_filepath_list, restart_cnt, run_no, fail_reason>>
    /\ UNCHANGED segHist
    /\ UNCHANGED <<planVars, pipeVars, batchVars, fnVars, muxVars, seriesVars, checkVars, opusVars, shortenVars, extractVars>>
    /\ UNCHANGED disk_aux

\* _init_status_file, the status file exists and json.loads raises on it.
SegInitStatusLoadError ==
    /\ seg_pc = "interval"
    /\ seg_iv <= Len(seg_plan)
    /\ CurDir \in DOMAIN disk_status
    /\ ~disk_status[CurDir].complete
    /\ SegFail("JSONDecodeError")
    /\ UNCHANGED <<seg_cfg, disk_status, disk_gop, run_no>>
    /\ UNCHANGED segHist
    /\ UNCHANGED <<planVars, pipeVars, batchVars, fnVars, muxVars, seriesVars, checkVars, opusVars, shortenVars, extractVars>>
    /\ UNCHANGED disk_aux

\* _init_status_file, no status file: the fresh status is built and
\* save_config opens the file for writing (which creates it empty).
SegInitStatusCreate ==
    /\ seg_pc = "interval"
    /\ seg_iv <= Len(seg_plan)
    /\ CurDir \notin DOMAIN disk_status
    /\ status_dict' = FreshStatus(CurFirst, CurLast, seg_cfg.gop_frame_cnt)
    /\ disk_status' = (CurDir :> TruncatedFile) @@ disk_status
    /\ gop_cache_dir_set' = gop_cache_dir_set \cup {CurDir}
    /\ seg_pc' = "init_write"
    /\ UNCHANGED <<seg_cfg, disk_gop, seg_plan, seg_iv, frame_index,
                   all_gop_filepath_list, restart_cnt, run_no, fail_reason>>
    /\ UNCHANGED segHist
    /\ UNCHANGED <<planVars, pipeVars, batchVars, fnVars, muxVars, seriesVars, checkVars, opusVars, shortenVars, extractVars>>
    /\ UNCHANGED disk_aux

\* save_config of the fresh status: the text is written and the file closed.
SegInitStatusWrite ==
    /\ seg_pc = "init_write"
    /\ disk_status' = (CurDir :> ToDisk(status_dict)) @@ disk_status
    /\ frame_index' = CurFirst
    /\ seg_pc' = "segment"
    /\ UNCHANGED <<seg_cfg, disk_gop, seg_plan, seg_iv, status_dict,
                   all_gop_filepath_list, gop_cache_dir_set, restart_cnt, run_no,
                   fail_reason>>
    /\ UNCHANGED segHist
    /\ UNCHANGED <<planVars, pipeVars, batchVars, fnVars, muxVars, seriesVars, checkVars, opusVars, shortenVars, extractVars>>
    /\ UNCHANGED disk_aux

\* _transcode_segment, loop head: the shard's entry is true, continue.
SegmentSkip ==
    /\ seg_pc = "segment"
    /\ frame_index <= CurLast
    /\ CurShard \in DOMAIN status_dict.segment_transcode_bool_dict
    /\ status_dict.segment_transcode_bool_dict[CurShard]
    /\ frame_index' = frame_index + seg_cfg.gop_frame_cnt
    /\ skipped' = skipped \cup {CurPath}
    /\ UNCHANGED <<seg_cfg, disk_status, disk_gop, seg_pc, seg_plan, seg_iv,
                   status_dict, all_gop_filepath_list, gop_cache_dir_set, restart_cnt,
                   run_no, fail_reason>>
    /\ UNCHANGED <<encode_log, ever_encoded, done_at_start, prev_end, tamper>>
    /\ UNCHANGED <<planVars, pipeVars, batchVars, fnVars, muxVars, seriesVars, checkVars, opusVars, shortenVars, extractVars>>
    /\ UNCHANGED disk_aux

\* _transcode_segment, loop head: the status has no entry for the shard.
SegmentKeyError ==
    /\ seg_pc = "segment"
    /\ frame_index <= CurLast
    /\ CurShard \notin DOMAIN status_dict.segment_transcode_bool_dict
    /\ SegFail("KeyError")
    /\ UNCHANGED <<seg_cfg, disk_status, disk_gop, run_no>>
    /\ UNCHANGED segHist
    /\ UNCHANGED <<planVars, pipeVars, batchVars, fnVars, muxVars, seriesVars, checkVars, opusVars, shortenVars, extractVars>>
    /\ UNCHANGED disk_aux

\* _transcode_segment, loop head: the shard's entry is false; the encoder's
\* transcode() is entered.
\* The encoder's transcode() then starts: _generate_vpy_script writes the
\* shard's script into the cache directory and a log left at the shard's
\* .csv path is removed.
SegmentEncodeBegin ==
    /\ seg_pc = "segment"
    /\ frame_index <= CurLast
    /\ CurShard \in DOMAIN status_dict.segment_transcode_bool_dict
    /\ ~status_dict.segment_transcode_bool_dict[CurShard]
    /\ restart_cnt' = 0
    /\ seg_pc' = "encode"
    /\ UNCHANGED <<seg_cfg, disk_status, disk_gop, seg_plan, seg_iv, frame_index,
                   status_dict, all_gop_filepath_list, gop_cache_dir_set, run_no,
                   fail_reason>>
    /\ UNCHANGED segHist
    /\ UNCHANGED <<planVars, pipeVars, batchVars, fnVars, muxVars, seriesVars, checkVars, opusVars, shortenVars, extractVars>>
    /\ disk_aux' = (disk_aux \ {<<CurPath, ".csv">>}) \cup {<<CurPath, ".vpy">>}

\* X265VspipeVideoTranscoding.transcode, one pass of its while True: the
\* command exits 0 with every frame encoded, the loop is left.
EncodeOk ==
    /\ seg_pc = "encode"
    /\ disk_gop' = disk_gop \cup {CurPath}
    /\ encode_log' = Append(encode_log, CurPath)
    /\ ever_encoded' = ever_encoded \cup {CurPath}
    /\ seg_pc' = "mark"
    /\ UNCHANGED <<seg_cfg, disk_status, seg_plan, seg_iv, frame_index, status_dict,
                   all_gop_filepath_list, gop_cache_dir_set, restart_cnt, run_no,
                   fail_reason>>
    /\ UNCHANGED <<skipped, done_at_start, prev_end, tamper>>
    /\ UNCHANGED <<planVars, pipeVars, batchVars, fnVars, muxVars, seriesVars, checkVars, opusVars, shortenVars, extractVars>>
    /\ disk_aux' = disk_aux \cup {<<CurPath, ".csv">>}

\* The same loop: the command exits non-zero, or exits 0 with a frame count
\* that differs from the total, or reports no total; the error is logged and
\* the command is started again.  The output file may have been created.
EncodeRestart ==
    /\ seg_pc = "encode"
    /\ restart_cnt < MaxRestart
    /\ restart_cnt' = restart_cnt + 1
    /\ \E created \in BOOLEAN :
           /\ disk_gop' = IF created THEN disk_gop \cup {CurPath} ELSE disk_gop
           /\ disk_aux' = IF created THEN disk_aux \cup {<<CurPath, ".csv">>}
                          ELSE disk_aux
    /\ UNCHANGED <<seg_cfg, disk_status, seg_pc, seg_plan, seg_iv, frame_index,
                   status_dict, all_gop_filepath_list, gop_cache_dir_set, run_no,
                   fail_reason>>
    /\ UNCHANGED segHist
    /\ UNCHANGED <<planVars, pipeVars, batchVars, fnVars, muxVars, seriesVars, checkVars, opusVars, shortenVars, extractVars>>

\* The same loop: subprocess.Popen raises (the frame server or the encoder
\* cannot be started); nothing in the loop catches it.
EncodeRaise ==
    /\ seg_pc = "encode"
    /\ SegFail("OSError")
    /\ UNCHANGED <<seg_cfg, disk_status, disk_gop, run_no>>
    /\ UNCHANGED segHist
    /\ UNCHANGED <<planVars, pipeVars, batchVars, fnVars, muxVars, seriesVars, checkVars, opusVars, shortenVars, extractVars>>
    /\ UNCHANGED disk_aux

\* _transcode_segment after the encode returned: the status is updated in
\* memory and save_config opens the status file for writing (truncating it).
SegmentMark ==
    /\ seg_pc = "mark"
    /\ status_dict' = MarkTranscoded(status_dict, CurShard)
    /\ disk_status' = (CurDir :> TruncatedFile) @@ disk_status
    /\ seg_pc' = "save_write"
    /\ UNCHANGED <<seg_cfg, disk_gop, seg_plan, seg_iv, frame_index,
                   all_gop_filepath_list, gop_cache_dir_set, restart_cnt, run_no,
                   fail_reason>>
    /\ UNCHANGED segHist
    /\ UNCHANGED <<planVars, pipeVars, batchVars, fnVars, muxVars, seriesVars, checkVars, opusVars, shortenVars, extractVars>>
    /\ UNCHANGED disk_aux

\* A save that writes nothing and leaves the file as the open left it.
SegmentSaveLost ==
    /\ seg_pc = "save_write"
    /\ frame_index' = frame_index + seg_cfg.gop_frame_cnt
    /\ seg_pc' = "segment"
    /\ UNCHANGED <<seg_cfg, disk_status, disk_gop, seg_plan, seg_iv, status_dict,
                   all_gop_filepath_list, gop_cache_dir_set, restart_cnt, run_no,
                   fail_reason>>
    /\ UNCHANGED segHist
    /\ UNCHANGED <<planVars, pipeVars, batchVars, fnVars, muxVars, seriesVars, checkVars, opusVars, shortenVars, extractVars>>
    /\ UNCHANGED disk_aux

\* save_config: the status is written and the file closed; next iteration.
SegmentSaveWrite ==
    /\ seg_pc = "save_write"
    /\ disk_status' = (CurDir :> ToDisk(status_dict)) @@ disk_status
    /\ frame_index' = frame_index + seg_cfg.gop_frame_cnt
    /\ seg_pc' = "segment"
    /\ UNCHANGED <<seg_cfg, disk_gop, seg_plan, seg_iv, status_dict,
                   all_gop_filepath_list, gop_cache_dir_set, restart_cnt, run_no,
                   fail_reason>>
    /\ UNCHANGED segHist
    /\ UNCHANGED <<planVars, pipeVars, batchVars, fnVars, muxVars, seriesVars, checkVars, opusVars, shortenVars, extractVars>>
    /\ UNCHANGED disk_aux

\* _transcode_segment after the loop: the interval's paths are collected from
\* status_dict["gop_filepath_dict"]; next entry of the plan.
SegmentLoopEnd ==
    /\ seg_pc = "segment"
    /\ frame_index > CurLast
    /\ status_dict.has_gop_filepath_dict
    /\ all_gop_filepath_list' =
           all_gop_filepath_list \o GopFilepathValues(status_dict, CurDir)
    /\ seg_iv' = seg_iv + 1
    /\ seg_pc' = "interval"
    /\ UNCHANGED <<seg_cfg, disk_status, disk_gop, seg_plan, frame_index, status_dict,
                   gop_cache_dir_set, restart_cnt, run_no, fail_reason>>
    /\ UNCHANGED segHist
    /\ UNCHANGED <<planVars, pipeVars, batchVars, fnVars, muxVars, seriesVars, checkVars, opusVars, shortenVars, extractVars>>
    /\ UNCHANGED disk_aux

\* The same statement on a status without the key "gop_filepath_dict".
SegmentLoopEndKeyError ==
    /\ seg_pc = "segment"
    /\ frame_index > CurLast
    /\ ~status_dict.has_gop_filepath_dict
    /\ SegFail("KeyError")
    /\ UNCHANGED <<seg_cfg, disk_status, disk_gop, run_no>>
    /\ UNCHANGED segHist
    /\ UNCHANGED <<planVars, pipeVars, batchVars, fnVars, muxVars, seriesVars, checkVars, opusVars, shortenVars, extractVars>>
    /\ UNCHANGED disk_aux

\* _merge_gop2mp4: gop_muxer returns 0.
MergeOk ==
    /\ seg_pc = "merge"
    /\ seg_pc' = "delete"
    /\ UNCHANGED <<seg_cfg, disk_status, disk_gop, seg_plan, seg_iv, frame_index,
                   status_dict, all_gop_filepath_list, gop_cache_dir_set, restart_cnt,
                   run_no, fail_reason>>
    /\ UNCHANGED segHist
    /\ UNCHANGED <<planVars, pipeVars, batchVars, fnVars, muxVars, seriesVars, checkVars, opusVars, shortenVars, extractVars>>
    /\ UNCHANGED disk_aux

\* A failing gop_muxer after which the cache directories are emptied.
MergeFailCleans ==
    /\ seg_pc = "merge"
    /\ disk_gop' = { p \in disk_gop : p[1] \notin gop_cache_dir_set }
    /\ SegFail("RuntimeError")
    /\ UNCHANGED <<seg_cfg, disk_status, run_no>>
    /\ UNCHANGED segHist
    /\ UNCHANGED <<planVars, pipeVars, batchVars, fnVars, muxVars, seriesVars, checkVars, opusVars, shortenVars, extractVars>>
    /\ UNCHANGED disk_aux

\* _merge_gop2mp4: gop_muxer returns non-zero, RuntimeError.
MergeFail ==
    /\ seg_pc = "merge"
    /\ SegFail("RuntimeError")
    /\ UNCHANGED <<seg_cfg, disk_status, disk_gop, run_no>>
    /\ UNCHANGED segHist
    /\ UNCHANGED <<planVars, pipeVars, batchVars, fnVars, muxVars, seriesVars, checkVars, opusVars, shortenVars, extractVars>>
    /\ UNCHANGED disk_aux

\* A set that spares the logs only.
ExclusiveCsvOnly == {".csv"}

\* delete_exclusive_suffix_set of GopX265VspipeVideoTranscoding
DeleteExclusiveSuffixSet == {".csv", ".vpy"}

\* _delete_cache_files skips a file when one of the suffixes occurs in its
\* name.  The names of a cache directory are a hash, which holds no ".",
\* followed by one suffix, so the suffix decides.
Exclusive(suffix) == suffix \in DeleteExclusiveSuffixSet

\* _delete_cache_files: every file of the run's cache directories whose name
\* contains neither ".csv" nor ".vpy" is removed: the shard outputs and the
\* status file.
DeleteCacheFiles ==
    /\ seg_pc = "delete"
    /\ disk_gop' = { p \in disk_gop : p[1] \notin gop_cache_dir_set }
    /\ disk_status' = [ d \in DOMAIN disk_status \ gop_cache_dir_set |-> disk_status[d] ]
    /\ disk_aux' = { f \in disk_aux :
                         f[1][1] \notin gop_cache_dir_set \/ Exclusive(f[2]) }
    /\ seg_pc' = "done"
    /\ UNCHANGED <<seg_cfg, seg_plan, seg_iv, frame_index, status_dict,
                   all_gop_filepath_list, gop_cache_dir_set, restart_cnt, run_no,
                   fail_reason>>
    /\ UNCHANGED segHist
    /\ UNCHANGED <<planVars, pipeVars, batchVars, fnVars, muxVars, seriesVars, checkVars, opusVars, shortenVars, extractVars>>

\* The process is killed (power loss, kill -9): memory is lost, the disk stays.
SegCrash ==
    /\ seg_pc \in SegRunning
    /\ seg_pc' = "crashed"
    /\ SegMemoryReset
    /\ UNCHANGED <<seg_cfg, disk_status, disk_gop, run_no, fail_reason>>
    /\ UNCHANGED segHist
    /\ UNCHANGED <<planVars, pipeVars, batchVars, fnVars, muxVars, seriesVars, checkVars, opusVars, shortenVars, extractVars>>
    /\ UNCHANGED disk_aux

\* Between runs, the output file of a shard marked transcoded is deleted.
TamperDeleteFile ==
    /\ seg_pc \in {"crashed", "failed"}
    /\ tamper.n < MaxTamper
    /\ \E p \in DoneOnDisk \cap disk_gop :
          /\ disk_gop' = disk_gop \ {p}
          /\ tamper' = [kind |-> "file", path |-> p, n |-> tamper.n + 1]
    /\ UNCHANGED <<seg_cfg, disk_status, seg_pc, seg_plan, seg_iv, frame_index,
                   status_dict, all_gop_filepath_list, gop_cache_dir_set, restart_cnt,
                   run_no, fail_reason>>
    /\ UNCHANGED <<encode_log, skipped, ever_encoded, done_at_start, prev_end>>
    /\ UNCHANGED <<planVars, pipeVars, batchVars, fnVars, muxVars, seriesVars, checkVars, opusVars, shortenVars, extractVars>>
    /\ UNCHANGED disk_aux

\* A status file without the entry of one shard, in either dict.
WithoutEntry(st, shard) ==
    [ st EXCEPT !.segment_transcode_bool_dict =
                    [ x \in DOMAIN @ \ {shard} |-> @[x] ],
                !.gop_filepath_dict = SelectSeq(@, LAMBDA x : x # shard) ]

\* Between runs, the status entry of a shard marked transcoded is deleted
\* from the status file, the rest of the file left as it is.
TamperDeleteEntry ==
    /\ seg_pc \in {"crashed", "failed"}
    /\ tamper.n < MaxTamper
    /\ \E p \in DoneOnDisk :
          /\ disk_status' = [ disk_status EXCEPT ![p[1]] = WithoutEntry(@, p[2]) ]
          /\ tamper' = [kind |-> "entry", path |-> p, n |-> tamper.n + 1]
    /\ UNCHANGED <<seg_cfg, disk_gop, seg_pc, seg_plan, seg_iv, frame_index,
                   status_dict, all_gop_filepath_list, gop_cache_dir_set, restart_cnt,
                   run_no, fail_reason>>
    /\ UNCHANGED <<encode_log, skipped, ever_encoded, done_at_start, prev_end>>
    /\ UNCHANGED <<planVars, pipeVars, batchVars, fnVars, muxVars, seriesVars, checkVars, opusVars, shortenVars, extractVars>>
    /\ UNCHANGED disk_aux

SegNext ==
    \/ SegStart
    \/ SegPlan
    \/ SegIntervalsDone
    \/ SegInitStatusLoad
    \/ SegInitStatusLoadError
    \/ SegInitStatusCreate
    \/ SegInitStatusWrite
    \/ SegmentSkip
    \/ SegmentEncodeBegin
    \/ EncodeOk
    \/ EncodeRestart
    \/ EncodeRaise
    \/ SegmentMark
    \/ SegmentSaveWrite
    \/ SegmentLoopEnd
    \/ SegmentLoopEndKeyError
    \/ MergeOk
    \/ MergeFail
    \/ DeleteCacheFiles
    \/ SegCrash

SegSpecInit == SegInit /\ PlanIdle /\ PipeOff /\ BatchOff /\ FnOff /\ MuxOff /\ SeriesOff /\ CheckOff /\ OpusOff /\ ShortenOff /\ ExtractOff

\* Runs, crashes and restarts.
SegSpec == SegSpecInit /\ [][SegNext]_vars

SegTamperNext ==
    \/ SegNext
    \/ SegmentKeyError
    \/ TamperDeleteFile
    \/ TamperDeleteEntry

\* The same with files and status entries removed by hand between runs.  Only
\* then can the status lack a shard's entry: a status file the program wrote
\* for an interval holds every shard of that interval.
SegTamperSpec == SegSpecInit /\ [][SegTamperNext]_vars

\* Between runs, a status file is given a key of its own by hand (a note, a
\* field of another tool), the rest of the file left as it is.
EditAddKey ==
    /\ seg_pc \in {"crashed", "failed"}
    /\ tamper.n < MaxTamper
    /\ \E d \in DOMAIN disk_status, text \in JsonTexts :
          /\ disk_status[d].complete
          /\ disk_status' = [ disk_status EXCEPT ![d].extra = {<<"note", text>>} ]
          /\ tamper' = [kind |-> "key", path |-> <<d, text>>, n |-> tamper.n + 1]
    /\ UNCHANGED <<seg_cfg, disk_gop, seg_pc, seg_plan, seg_iv, frame_index,
                   status_dict, all_gop_filepath_list, gop_cache_dir_set, restart_cnt,
                   run_no, fail_reason>>
    /\ UNCHANGED <<encode_log, skipped, ever_encoded, done_at_start, prev_end>>
    /\ UNCHANGED <<planVars, pipeVars, batchVars, fnVars, muxVars, seriesVars, checkVars, opusVars, shortenVars, extractVars>>
    /\ UNCHANGED disk_aux

SegEditNext ==
    \/ SegNext
    \/ EditAddKey

\* A video of two frames in shards of one frame, under every accepted
\* segmented_transcode_config_list.
SegEditInit ==
    /\ SegSpecInit
    /\ seg_cfg.last = 1
    /\ seg_cfg.gop_frame_cnt = 1

\* Runs, crashes and restarts over status files that carry a key of their own.
SegEditSpec == SegEditInit /\ [][SegEditNext]_vars

\* Between runs, the program is started again with another gop_frame_cnt
\* for the same video: the cache directories and their status files stay.
ChangeGopFrameCnt ==
    /\ seg_pc \in {"crashed", "failed"}
    /\ tamper.n < MaxTamper
    /\ \E g \in (1..SegMaxGop) \ {seg_cfg.gop_frame_cnt} :
          /\ seg_cfg' = [ seg_cfg EXCEPT !.gop_frame_cnt = g ]
          /\ tamper' = [kind |-> "gop", path |-> <<seg_cfg.gop_frame_cnt, g>>,
                        n |-> tamper.n + 1]
    /\ UNCHANGED <<disk_status, disk_gop, seg_pc, seg_plan, seg_iv, frame_index,
                   status_dict, all_gop_filepath_list, gop_cache_dir_set, restart_cnt,
                   run_no, fail_reason>>
    /\ UNCHANGED <<encode_log, skipped, ever_encoded, done_at_start, prev_end>>
    /\ UNCHANGED <<planVars, pipeVars, batchVars, fnVars, muxVars, seriesVars, checkVars, opusVars, shortenVars, extractVars>>
    /\ UNCHANGED disk_aux

SegRegopNext ==
    \/ SegNext
    \/ ChangeGopFrameCnt

\* A video of one or two frames, under every accepted
\* segmented_transcode_config_list.
SegRegopInit ==
    /\ SegSpecInit
    /\ seg_cfg.last <= 1

\* Runs, crashes and restarts in which gop_frame_cnt changes between runs.
SegRegopSpec == SegRegopInit /\ [][SegRegopNext]_vars

----------------------------------------------------------------------------
(* Spec: the actions of one title pipeline *)

\* The sub-flows that write the files they extract to the cache directory.
ExtractingFlows == {"subtitle", "chapter", "attachment"}

\* The sub-flows whose result is a TrackFile: TextTrackFile, MenuTrackFile.
TrackFlows == {"subtitle", "chapter"}

\* The cache files no sub-flow adds to self._remove_filepath_set.
NotRegistered == {"chapter"}

\* The internal tracks first, whatever the option.
InternalFirst(prior_option, internal, external) == internal \o external

\* The internal and the external tracks of one kind, in the order the
\* *_prior_option of the config asks for.
PriorOrder(prior_option, internal, external) ==
    IF prior_option = "internal" THEN internal \o external
    ELSE external \o internal

\* An exception leaves transcode().
MainRaise(exc) ==
    /\ main_pc' = "error"
    /\ pipe_exc' = exc

\* One of the three sub-flows transcode() runs to their end before the video
\* sub-flow: called directly, or as a thread started and joined at once.  An
\* exception in a thread ends the thread only; a direct call passes it on.
RunSubFlow(flow, here, next) ==
    /\ main_pc = here
    /\ flow_ended' = flow_ended \cup {flow}
    /\ \E ok \in BOOLEAN :
          IF ok
          THEN /\ main_pc' = next
               /\ cache_files' = cache_files \cup ({flow} \cap ExtractingFlows)
               /\ track_files' = track_files \cup ({flow} \cap TrackFlows)
               /\ output_text_track_file_list' =
                      IF flow = "subtitle"
                      THEN PriorOrder(pipe_cfg.subtitle_prior_option,
                                      <<"internal_subtitle">>,
                                      <<"external_subtitle">>)
                      ELSE output_text_track_file_list
               /\ UNCHANGED <<flow_error, pipe_exc>>
          ELSE /\ flow_error' = flow_error \cup {flow}
               /\ cache_files' = cache_files
               /\ track_files' = track_files
               /\ output_text_track_file_list' = output_text_track_file_list
               /\ IF pipe_cfg.thread_bool
                  THEN main_pc' = next /\ pipe_exc' = pipe_exc
                  ELSE MainRaise(flow)
    /\ UNCHANGED <<pipe_cfg, io_complete, thread_lock, video_pc, audio_pc,
                   video_io_done, mux_state, cleaned>>
    /\ UNCHANGED <<planVars, segVars, batchVars, fnVars, muxVars, seriesVars, checkVars, opusVars, shortenVars, extractVars>>
    /\ UNCHANGED <<output_audio_track_file_list, track_info_list>>
    /\ UNCHANGED kept_files
    /\ UNCHANGED encHist

\* transcode(): shorten_inputfile_paths and _pre_multiplex.
PreMultiplex ==
    /\ main_pc = "pre_multiplex"
    /\ \E ok \in BOOLEAN, is_mkv \in BOOLEAN :
          IF ok
          THEN /\ main_pc' = "subtitle"
               /\ pipe_exc' = pipe_exc
               /\ cache_files' = IF is_mkv THEN cache_files
                                 ELSE cache_files \cup {"pre_multiplex"}
          ELSE /\ MainRaise("pre_multiplex")
               /\ cache_files' = cache_files
    /\ UNCHANGED <<pipe_cfg, io_complete, thread_lock, video_pc, audio_pc,
                   flow_error, video_io_done, flow_ended, mux_state, cleaned>>
    /\ UNCHANGED <<planVars, segVars, batchVars, fnVars, muxVars, seriesVars, checkVars, opusVars, shortenVars, extractVars>>
    /\ UNCHANGED trackLists
    /\ UNCHANGED kept_files
    /\ UNCHANGED <<track_files, encHist>>

SubtitleProcess == RunSubFlow("subtitle", "subtitle", "chapter")

ChapterProcess == RunSubFlow("chapter", "chapter", "attachment")

AttachmentProcess ==
    RunSubFlow("attachment", "attachment",
               IF pipe_cfg.thread_bool THEN "video_start" ELSE "audio_call")

\* thread_bool: thread_video_stream.start()
ThreadVideoStart ==
    /\ main_pc = "video_start"
    /\ video_pc' = "acquire"
    /\ main_pc' = "poll_acquire"
    /\ UNCHANGED <<pipe_cfg, io_complete, thread_lock, audio_pc, flow_error,
                   pipe_exc, video_io_done>>
    /\ UNCHANGED <<cache_files, flow_ended, mux_state, cleaned>>
    /\ UNCHANGED <<planVars, segVars, batchVars, fnVars, muxVars, seriesVars, checkVars, opusVars, shortenVars, extractVars>>
    /\ UNCHANGED trackLists
    /\ UNCHANGED kept_files
    /\ UNCHANGED <<track_files, encHist>>

\* The polling loop of transcode(): self._thread_lock.acquire()
MainAcquire ==
    /\ main_pc = "poll_acquire"
    /\ thread_lock = "none"
    /\ thread_lock' = "main"
    /\ main_pc' = "poll_check"
    /\ UNCHANGED <<pipe_cfg, io_complete, video_pc, audio_pc, flow_error,
                   pipe_exc, video_io_done>>
    /\ UNCHANGED <<cache_files, flow_ended, mux_state, cleaned>>
    /\ UNCHANGED <<planVars, segVars, batchVars, fnVars, muxVars, seriesVars, checkVars, opusVars, shortenVars, extractVars>>
    /\ UNCHANGED trackLists
    /\ UNCHANGED kept_files
    /\ UNCHANGED <<track_files, encHist>>

\* The polling loop: io_complete is seen true, thread_audio.start()
MainStartAudio ==
    /\ main_pc = "poll_check"
    /\ io_complete
    /\ audio_pc' = "demux"
    /\ main_pc' = "poll_break"
    /\ UNCHANGED <<pipe_cfg, io_complete, thread_lock, video_pc, flow_error,
                   pipe_exc, video_io_done>>
    /\ UNCHANGED <<cache_files, flow_ended, mux_state, cleaned>>
    /\ UNCHANGED <<planVars, segVars, batchVars, fnVars, muxVars, seriesVars, checkVars, opusVars, shortenVars, extractVars>>
    /\ UNCHANGED trackLists
    /\ UNCHANGED kept_files
    /\ UNCHANGED <<track_files, encHist>>

\* The polling loop: the lock is released and the loop left.
MainReleaseBreak ==
    /\ main_pc = "poll_break"
    /\ thread_lock' = "none"
    /\ main_pc' = "join_video"
    /\ UNCHANGED <<pipe_cfg, io_complete, video_pc, audio_pc, flow_error,
                   pipe_exc, video_io_done>>
    /\ UNCHANGED <<cache_files, flow_ended, mux_state, cleaned>>
    /\ UNCHANGED <<planVars, segVars, batchVars, fnVars, muxVars, seriesVars, checkVars, opusVars, shortenVars, extractVars>>
    /\ UNCHANGED trackLists
    /\ UNCHANGED kept_files
    /\ UNCHANGED <<track_files, encHist>>

\* The polling loop: io_complete is seen false, the lock is released and the
\* loop sleeps half a second before its next pass.
MainReleaseSleep ==
    /\ main_pc = "poll_check"
    /\ ~io_complete
    /\ thread_lock' = "none"
    /\ main_pc' = "poll_acquire"
    /\ UNCHANGED <<pipe_cfg, io_complete, video_pc, audio_pc, flow_error,
                   pipe_exc, video_io_done>>
    /\ UNCHANGED <<cache_files, flow_ended, mux_state, cleaned>>
    /\ UNCHANGED <<planVars, segVars, batchVars, fnVars, muxVars, seriesVars, checkVars, opusVars, shortenVars, extractVars>>
    /\ UNCHANGED trackLists
    /\ UNCHANGED kept_files
    /\ UNCHANGED <<track_files, encHist>>

\* thread_video_stream.join()
MainJoinVideo ==
    /\ main_pc = "join_video"
    /\ video_pc \in {"done", "error"}
    /\ main_pc' = "join_audio"
    /\ UNCHANGED <<pipe_cfg, io_complete, thread_lock, video_pc, audio_pc,
                   flow_error, pipe_exc, video_io_done>>
    /\ UNCHANGED <<cache_files, flow_ended, mux_state, cleaned>>
    /\ UNCHANGED <<planVars, segVars, batchVars, fnVars, muxVars, seriesVars, checkVars, opusVars, shortenVars, extractVars>>
    /\ UNCHANGED trackLists
    /\ UNCHANGED kept_files
    /\ UNCHANGED <<track_files, encHist>>

\* A join that returns while the audio thread is still running.
MainJoinAudioNoWait ==
    /\ main_pc = "join_audio"
    /\ main_pc' = "multiplex"
    /\ UNCHANGED <<pipe_cfg, io_complete, thread_lock, video_pc, audio_pc,
                   flow_error, pipe_exc, video_io_done>>
    /\ UNCHANGED <<cache_files, flow_ended, mux_state, cleaned>>
    /\ UNCHANGED <<planVars, segVars, batchVars, fnVars, muxVars, seriesVars, checkVars, opusVars, shortenVars, extractVars>>
    /\ UNCHANGED trackLists
    /\ UNCHANGED kept_files
    /\ UNCHANGED <<track_files, encHist>>

\* thread_audio.join()
MainJoinAudio ==
    /\ main_pc = "join_audio"
    /\ audio_pc \in {"done", "error"}
    /\ main_pc' = "multiplex"
    /\ UNCHANGED <<pipe_cfg, io_complete, thread_lock, video_pc, audio_pc,
                   flow_error, pipe_exc, video_io_done>>
    /\ UNCHANGED <<cache_files, flow_ended, mux_state, cleaned>>
    /\ UNCHANGED <<planVars, segVars, batchVars, fnVars, muxVars, seriesVars, checkVars, opusVars, shortenVars, extractVars>>
    /\ UNCHANGED trackLists
    /\ UNCHANGED kept_files
    /\ UNCHANGED <<track_files, encHist>>

\* not thread_bool: self._audio_process() is called, after the attachments
\* and before self._video_stream_process().
SeqAudioCall ==
    /\ main_pc = "audio_call"
    /\ audio_pc' = "demux"
    /\ main_pc' = "audio_run"
    /\ UNCHANGED <<pipe_cfg, io_complete, thread_lock, video_pc, flow_error,
                   pipe_exc, video_io_done>>
    /\ UNCHANGED <<cache_files, flow_ended, mux_state, cleaned>>
    /\ UNCHANGED <<planVars, segVars, batchVars, fnVars, muxVars, seriesVars, checkVars, opusVars, shortenVars, extractVars>>
    /\ UNCHANGED trackLists
    /\ UNCHANGED kept_files
    /\ UNCHANGED <<track_files, encHist>>

\* not thread_bool: self._audio_process() returns or raises.
SeqAudioReturn ==
    /\ main_pc = "audio_run"
    /\ audio_pc \in {"done", "error"}
    /\ IF audio_pc = "done"
       THEN main_pc' = "video_call" /\ pipe_exc' = pipe_exc
       ELSE MainRaise("audio")
    /\ UNCHANGED <<pipe_cfg, io_complete, thread_lock, video_pc, audio_pc,
                   flow_error, video_io_done>>
    /\ UNCHANGED <<cache_files, flow_ended, mux_state, cleaned>>
    /\ UNCHANGED <<planVars, segVars, batchVars, fnVars, muxVars, seriesVars, checkVars, opusVars, shortenVars, extractVars>>
    /\ UNCHANGED trackLists
    /\ UNCHANGED kept_files
    /\ UNCHANGED <<track_files, encHist>>

\* not thread_bool: self._video_stream_process() is called.
SeqVideoCall ==
    /\ main_pc = "video_call"
    /\ video_pc' = "acquire"
    /\ main_pc' = "video_run"
    /\ UNCHANGED <<pipe_cfg, io_complete, thread_lock, audio_pc, flow_error,
                   pipe_exc, video_io_done>>
    /\ UNCHANGED <<cache_files, flow_ended, mux_state, cleaned>>
    /\ UNCHANGED <<planVars, segVars, batchVars, fnVars, muxVars, seriesVars, checkVars, opusVars, shortenVars, extractVars>>
    /\ UNCHANGED trackLists
    /\ UNCHANGED kept_files
    /\ UNCHANGED <<track_files, encHist>>

\* not thread_bool: self._video_stream_process() returns or raises.
SeqVideoReturn ==
    /\ main_pc = "video_run"
    /\ video_pc \in {"done", "error"}
    /\ IF video_pc = "done"
       THEN main_pc' = "multiplex" /\ pipe_exc' = pipe_exc
       ELSE MainRaise("video")
    /\ UNCHANGED <<pipe_cfg, io_complete, thread_lock, video_pc, audio_pc,
                   flow_error, video_io_done>>
    /\ UNCHANGED <<cache_files, flow_ended, mux_state, cleaned>>
    /\ UNCHANGED <<planVars, segVars, batchVars, fnVars, muxVars, seriesVars, checkVars, opusVars, shortenVars, extractVars>>
    /\ UNCHANGED trackLists
    /\ UNCHANGED kept_files
    /\ UNCHANGED <<track_files, encHist>>

\* _video_stream_process, first statement: self._thread_lock.acquire()
VideoAcquire ==
    /\ video_pc = "acquire"
    /\ thread_lock = "none"
    /\ thread_lock' = "video"
    /\ video_pc' = "set_io_complete"
    /\ UNCHANGED <<pipe_cfg, io_complete, main_pc, audio_pc, flow_error, pipe_exc,
                   video_io_done>>
    /\ UNCHANGED <<cache_files, flow_ended, mux_state, cleaned>>
    /\ UNCHANGED <<planVars, segVars, batchVars, fnVars, muxVars, seriesVars, checkVars, opusVars, shortenVars, extractVars>>
    /\ UNCHANGED trackLists
    /\ UNCHANGED kept_files
    /\ UNCHANGED <<track_files, encHist>>

\* _video_stream_process, second statement: io_complete = True
VideoSetIoComplete ==
    /\ video_pc = "set_io_complete"
    /\ io_complete' = TRUE
    /\ video_pc' = "release"
    /\ UNCHANGED <<pipe_cfg, thread_lock, main_pc, audio_pc, flow_error, pipe_exc,
                   video_io_done>>
    /\ UNCHANGED <<cache_files, flow_ended, mux_state, cleaned>>
    /\ UNCHANGED <<planVars, segVars, batchVars, fnVars, muxVars, seriesVars, checkVars, opusVars, shortenVars, extractVars>>
    /\ UNCHANGED trackLists
    /\ UNCHANGED kept_files
    /\ UNCHANGED <<track_files, encHist>>

\* _video_stream_process, third statement: self._thread_lock.release()
VideoRelease ==
    /\ video_pc = "release"
    /\ thread_lock' = "none"
    /\ video_pc' = "io"
    /\ UNCHANGED <<pipe_cfg, io_complete, main_pc, audio_pc, flow_error, pipe_exc,
                   video_io_done>>
    /\ UNCHANGED <<cache_files, flow_ended, mux_state, cleaned>>
    /\ UNCHANGED <<planVars, segVars, batchVars, fnVars, muxVars, seriesVars, checkVars, opusVars, shortenVars, extractVars>>
    /\ UNCHANGED trackLists
    /\ UNCHANGED kept_files
    /\ UNCHANGED <<track_files, encHist>>

\* _video_stream_process reads the input: extract_video_track (copy to mp4),
\* MediaInfo.parse (copy to mkv) or copy_video (transcode).  A copy is then
\* finished; a transcode goes on to the encoder.
VideoIo ==
    /\ video_pc = "io"
    /\ \E ok \in BOOLEAN :
          IF ok
          THEN /\ video_io_done' = TRUE
               /\ video_pc' = IF pipe_cfg.video_process_option = "copy"
                              THEN "done" ELSE "encode"
               /\ flow_error' = flow_error
               /\ flow_ended' = IF pipe_cfg.video_process_option = "copy"
                                THEN flow_ended \cup {"video"} ELSE flow_ended
               /\ cache_files' =
                      IF pipe_cfg.video_process_option = "copy"
                         /\ pipe_cfg.package_format = "mkv"
                      THEN cache_files
                      ELSE cache_files \cup {"video_track"}
               /\ track_files' =
                      IF pipe_cfg.video_process_option = "copy"
                         /\ pipe_cfg.package_format = "mkv"
                      THEN track_files
                      ELSE track_files \cup {"video_track"}
          ELSE /\ video_io_done' = video_io_done
               /\ video_pc' = "error"
               /\ flow_error' = flow_error \cup {"video"}
               /\ flow_ended' = flow_ended \cup {"video"}
               /\ cache_files' = cache_files
               /\ track_files' = track_files
    /\ UNCHANGED <<pipe_cfg, io_complete, thread_lock, main_pc, audio_pc, pipe_exc,
                   mux_state, cleaned>>
    /\ UNCHANGED <<planVars, segVars, batchVars, fnVars, muxVars, seriesVars, checkVars, opusVars, shortenVars, extractVars>>
    /\ UNCHANGED trackLists
    /\ UNCHANGED kept_files
    /\ UNCHANGED encHist

\* The sub-flow after the encoder's transcode() has returned the output path:
\* MediaInfo.parse reads the file, which raises when there is none, and
\* self._output_video_track_file is set to a TrackFile of that path.
EncodeReturned(exit, written) ==
    /\ encoder_exit' = exit
    /\ encode_returned' = TRUE
    /\ encoder_runs' = 1 - encoder_runs
    /\ kept_files' = kept_files \cup {"encoder_log"}
    /\ flow_ended' = flow_ended \cup {"video"}
    /\ IF written
       THEN /\ video_pc' = "done"
            /\ flow_error' = flow_error
            /\ cache_files' = cache_files \cup {"video_encoded"}
            /\ track_files' = track_files \cup {"video_encoded"}
       ELSE /\ video_pc' = "error"
            /\ flow_error' = flow_error \cup {"video"}
            /\ cache_files' = cache_files
            /\ track_files' = track_files

\* _video_stream_process, video_process_option "transcode": the encoder object
\* is built and its transcode() runs the command.  With frame_server "vspipe"
\* (x265, x264, nvenc through vspipe) a non-zero exit runs the command again;
\* with frame_server "" NvencVideoTranscoding.transcode builds a
\* ChildProcessError on a non-zero exit without raising it and returns the
\* output path, whether the command wrote the file or not.  An exception of
\* the constructor or of Popen ends the sub-flow.  Every run of the command
\* writes the encoder's log into the cache directory.
VideoEncode ==
    /\ video_pc = "encode"
    /\ \/ EncodeReturned("zero", TRUE)
       \/ /\ pipe_cfg.frame_server = "vspipe"
          /\ encoder_exit' = "nonzero"
          /\ encoder_runs' = 1 - encoder_runs
          /\ kept_files' = kept_files \cup {"encoder_log"}
          /\ UNCHANGED <<video_pc, flow_error, flow_ended, cache_files,
                         track_files, encode_returned>>
       \/ /\ pipe_cfg.frame_server = ""
          /\ \E written \in BOOLEAN : EncodeReturned("nonzero", written)
       \/ /\ video_pc' = "error"
          /\ flow_error' = flow_error \cup {"video"}
          /\ flow_ended' = flow_ended \cup {"video"}
          /\ UNCHANGED <<cache_files, track_files, encHist, kept_files>>
    /\ UNCHANGED <<pipe_cfg, io_complete, thread_lock, main_pc, audio_pc, pipe_exc,
                   video_io_done, mux_state, cleaned>>
    /\ UNCHANGED <<planVars, segVars, batchVars, fnVars, muxVars, seriesVars, checkVars, opusVars, shortenVars, extractVars>>
    /\ UNCHANGED trackLists

\* _audio_process: the option checks and the first demux, extract_audio_track.
AudioDemux ==
    /\ audio_pc = "demux"
    /\ \E ok \in BOOLEAN :
          IF ok
          THEN /\ audio_pc' = "transcode"
               /\ flow_error' = flow_error
               /\ flow_ended' = flow_ended
               /\ cache_files' = cache_files \cup {"audio_track"}
               /\ track_files' = track_files \cup {"audio_track"}
          ELSE /\ audio_pc' = "error"
               /\ flow_error' = flow_error \cup {"audio"}
               /\ flow_ended' = flow_ended \cup {"audio"}
               /\ cache_files' = cache_files
               /\ track_files' = track_files
    /\ UNCHANGED <<pipe_cfg, io_complete, thread_lock, main_pc, video_pc, pipe_exc,
                   video_io_done, mux_state, cleaned>>
    /\ UNCHANGED <<planVars, segVars, batchVars, fnVars, muxVars, seriesVars, checkVars, opusVars, shortenVars, extractVars>>
    /\ UNCHANGED trackLists
    /\ UNCHANGED kept_files
    /\ UNCHANGED encHist

\* An audio transcode called with delete_input_file_bool, which removes the
\* extracted track once the transcoded file is written.
AudioTranscodeDeleteInput ==
    /\ audio_pc = "transcode"
    /\ flow_ended' = flow_ended \cup {"audio"}
    /\ \E ok \in BOOLEAN :
          IF ok
          THEN /\ audio_pc' = "done"
               /\ flow_error' = flow_error
               /\ cache_files' = (cache_files \ {"audio_track"})
                                     \cup {"audio_transcoded"}
               /\ track_files' = track_files \cup {"audio_transcoded"}
               /\ output_audio_track_file_list' =
                      PriorOrder(pipe_cfg.audio_prior_option,
                                 <<"internal_audio">>, <<"external_audio">>)
          ELSE /\ audio_pc' = "error"
               /\ flow_error' = flow_error \cup {"audio"}
               /\ cache_files' = cache_files
               /\ track_files' = track_files
               /\ output_audio_track_file_list' = output_audio_track_file_list
    /\ UNCHANGED <<pipe_cfg, io_complete, thread_lock, main_pc, video_pc, pipe_exc,
                   video_io_done, mux_state, cleaned>>
    /\ UNCHANGED <<planVars, segVars, batchVars, fnVars, muxVars, seriesVars, checkVars, opusVars, shortenVars, extractVars>>
    /\ UNCHANGED <<output_text_track_file_list, track_info_list>>
    /\ UNCHANGED kept_files
    /\ UNCHANGED encHist

\* _audio_process: the tracks are copied or transcoded and
\* self._output_audio_track_file_list is set.  _audio_transcode calls
\* transcode_audio_opus / _qaac / _flac without delete_input_file_bool, so the
\* extracted track stays; the only file they remove is the .flac that
\* transcode_audio_opus itself makes for an input opusenc cannot read.
AudioTranscode ==
    /\ audio_pc = "transcode"
    /\ flow_ended' = flow_ended \cup {"audio"}
    /\ \E ok \in BOOLEAN :
          IF ok
          THEN /\ audio_pc' = "done"
               /\ flow_error' = flow_error
               /\ cache_files' = cache_files \cup {"audio_transcoded"}
               /\ track_files' = track_files \cup {"audio_transcoded"}
               /\ output_audio_track_file_list' =
                      PriorOrder(pipe_cfg.audio_prior_option,
                                 <<"internal_audio">>, <<"external_audio">>)
          ELSE /\ audio_pc' = "error"
               /\ flow_error' = flow_error \cup {"audio"}
               /\ cache_files' = cache_files
               /\ track_files' = track_files
               /\ output_audio_track_file_list' = output_audio_track_file_list
    /\ UNCHANGED <<pipe_cfg, io_complete, thread_lock, main_pc, video_pc, pipe_exc,
                   video_io_done, mux_state, cleaned>>
    /\ UNCHANGED <<planVars, segVars, batchVars, fnVars, muxVars, seriesVars, checkVars, opusVars, shortenVars, extractVars>>
    /\ UNCHANGED <<output_text_track_file_list, track_info_list>>
    /\ UNCHANGED kept_files
    /\ UNCHANGED encHist

\* The sub-flows whose result attribute is assigned only at their end: when
\* their thread died, _multiplex_all reads an attribute that was never set.
ResultAtEnd == {"subtitle", "chapter", "audio", "video"}

\* _multiplex_all: the list of tracks is the video track, the audio tracks
\* and the text tracks, then the muxer of the package format runs on it.
MultiplexAll ==
    /\ main_pc = "multiplex"
    /\ IF flow_error \cap ResultAtEnd # {}
       THEN MainRaise("AttributeError") /\ mux_state' = "failed"
       ELSE \E ok \in BOOLEAN :
               IF ok THEN /\ main_pc' = "delete_cache"
                          /\ pipe_exc' = pipe_exc
                          /\ mux_state' = "ok"
                     ELSE /\ MainRaise("multiplex")
                          /\ mux_state' = "failed"
    /\ kept_files' = IF mux_state' = "ok" THEN kept_files \cup {"output"}
                     ELSE kept_files
    /\ UNCHANGED <<pipe_cfg, io_complete, thread_lock, video_pc, audio_pc,
                   flow_error, cache_files, video_io_done, flow_ended, cleaned>>
    /\ UNCHANGED <<planVars, segVars, batchVars, fnVars, muxVars, seriesVars, checkVars, opusVars, shortenVars, extractVars>>
    /\ track_info_list' =
          IF flow_error \cap ResultAtEnd # {} THEN track_info_list
          ELSE <<"video">> \o output_audio_track_file_list
                   \o output_text_track_file_list
    /\ UNCHANGED <<output_text_track_file_list, output_audio_track_file_list>>
    /\ UNCHANGED <<track_files, encHist>>

\* self._video_track_file.filepath is the user's input video when the video
\* is copied into an mkv and the input needed no pre-multiplex; every other
\* path gives the track file a name the pipeline made from
\* self._cache_media_filename.
TrackFileIsInput ==
    /\ pipe_cfg.video_process_option = "copy"
    /\ pipe_cfg.package_format = "mkv"
    /\ "pre_multiplex" \notin cache_files

\* The files _delete_cache_file adds to _remove_filepath_set itself: every
\* file of cache_dir whose name contains the name of the video track file
\* and is not that name.
Swept == IF TrackFileIsInput THEN pipe_cfg.name_match ELSE {}

\* _delete_cache_file removes the swept files and every file of
\* _remove_filepath_set, and transcode() returns the output path.
DeleteCacheFile ==
    /\ main_pc = "delete_cache"
    /\ main_pc' = "done"
    /\ cache_files' = cache_files \cap NotRegistered
    /\ kept_files' = kept_files \ Swept
    /\ cleaned' = TRUE
    /\ UNCHANGED <<pipe_cfg, io_complete, thread_lock, video_pc, audio_pc,
                   flow_error, pipe_exc, video_io_done, flow_ended, mux_state>>
    /\ UNCHANGED <<planVars, segVars, batchVars, fnVars, muxVars, seriesVars, checkVars, opusVars, shortenVars, extractVars>>
    /\ UNCHANGED trackLists
    /\ UNCHANGED <<track_files, encHist>>

Next ==
    \/ PreMultiplex
    \/ SubtitleProcess
    \/ ChapterProcess
    \/ AttachmentProcess
    \/ ThreadVideoStart
    \/ MainAcquire
    \/ MainStartAudio
    \/ MainReleaseBreak
    \/ MainReleaseSleep
    \/ MainJoinVideo
    \/ MainJoinAudio
    \/ SeqAudioCall
    \/ SeqAudioReturn
    \/ SeqVideoCall
    \/ SeqVideoReturn
    \/ VideoAcquire
    \/ VideoSetIoComplete
    \/ VideoRelease
    \/ VideoIo
    \/ VideoEncode
    \/ AudioDemux
    \/ AudioTranscode
    \/ MultiplexAll
    \/ DeleteCacheFile

Init == PipeInit /\ PlanIdle /\ SegOff /\ BatchOff /\ FnOff /\ MuxOff /\ SeriesOff /\ CheckOff /\ OpusOff /\ ShortenOff /\ ExtractOff

\* One title through transcode(), every interleaving of its threads.
Spec == Init /\ [][Next]_vars

\* The steps of transcode() itself: the main thread.
MainThread ==
    \/ PreMultiplex
    \/ SubtitleProcess
    \/ ChapterProcess
    \/ AttachmentProcess
    \/ ThreadVideoStart
    \/ MainAcquire
    \/ MainStartAudio
    \/ MainReleaseBreak
    \/ MainReleaseSleep
    \/ MainJoinVideo
    \/ MainJoinAudio
    \/ SeqAudioCall
    \/ SeqAudioReturn
    \/ SeqVideoCall
    \/ SeqVideoReturn
    \/ MultiplexAll
    \/ DeleteCacheFile

\* The steps of _video_stream_process once it holds the lock.
VideoThread ==
    \/ VideoSetIoComplete
    \/ VideoRelease
    \/ VideoIo
    \/ VideoEncode

\* The steps of _audio_process.
AudioThread ==
    \/ AudioDemux
    \/ AudioTranscode

\* A title whose cache directory holds no file of the user and whose tracks
\* are ordered internal first.
FairInit ==
    /\ Init
    /\ pipe_cfg.name_match = {}
    /\ pipe_cfg.audio_prior_option = "internal"
    /\ pipe_cfg.subtitle_prior_option = "internal"

\* The title under a fair scheduler: a thread that can take a step takes one.
\* The polling loop frees the lock for its half second of sleep in every
\* pass, so the video thread waiting in acquire() gets the lock.
FairSpec ==
    /\ FairInit
    /\ [][Next]_vars
    /\ WF_vars(MainThread)
    /\ SF_vars(VideoAcquire)
    /\ WF_vars(VideoThread)
    /\ WF_vars(AudioThread)

----------------------------------------------------------------------------
(* BatchSpec: transcode_all_missions.  A first loop checks and expands     *)
(* every mission config, a second loop runs the missions in order.  The    *)
(* missions are of type "single" and transcode their video with x265.      *)

\* An exception leaves transcode_all_missions: neither loop has a handler.
BatchRaise(exc) ==
    /\ batch_pc' = "error"
    /\ batch_exc' = exc
    /\ mission_state' = [mission_state EXCEPT ![batch_i] = "raised"]

\* A first loop that lets every config through to the second loop.
BatchValidateLenient ==
    /\ batch_pc = "validate"
    /\ batch_i \in DOMAIN missions
    /\ mission_state' = [mission_state EXCEPT ![batch_i] = "validated"]
    /\ batch_i' = batch_i + 1
    /\ UNCHANGED <<missions, batch_pc, batch_exc, tools_run>>
    /\ UNCHANGED <<planVars, segVars, pipeVars, fnVars, muxVars, seriesVars, checkVars, opusVars, shortenVars, extractVars>>

\* First loop, one mission: config_pre_check passes, the config is expanded
\* and appended to new_all_mission_config_list.
BatchValidateOk ==
    /\ batch_pc = "validate"
    /\ batch_i \in DOMAIN missions
    /\ missions[batch_i].pre_check_ok
    /\ mission_state' = [mission_state EXCEPT ![batch_i] = "validated"]
    /\ batch_i' = batch_i + 1
    /\ UNCHANGED <<missions, batch_pc, batch_exc, tools_run>>
    /\ UNCHANGED <<planVars, segVars, pipeVars, fnVars, muxVars, seriesVars, checkVars, opusVars, shortenVars, extractVars>>

\* First loop, one mission: config_pre_check raises.
BatchValidateRaise ==
    /\ batch_pc = "validate"
    /\ batch_i \in DOMAIN missions
    /\ ~missions[batch_i].pre_check_ok
    /\ BatchRaise("RangeError")
    /\ UNCHANGED <<missions, batch_i, tools_run>>
    /\ UNCHANGED <<planVars, segVars, pipeVars, fnVars, muxVars, seriesVars, checkVars, opusVars, shortenVars, extractVars>>

\* The first loop is exhausted, the second starts at the first mission.
BatchValidated ==
    /\ batch_pc = "validate"
    /\ batch_i > Len(missions)
    /\ batch_pc' = "run"
    /\ batch_i' = 1
    /\ UNCHANGED <<missions, mission_state, batch_exc, tools_run>>
    /\ UNCHANGED <<planVars, segVars, pipeVars, fnVars, muxVars, seriesVars, checkVars, opusVars, shortenVars, extractVars>>

\* Second loop: CompleteVideoTranscoding(...) is built and transcode() entered.
MissionStart ==
    /\ batch_pc = "run"
    /\ batch_i \in DOMAIN missions
    /\ mission_state[batch_i] = "validated"
    /\ mission_state' = [mission_state EXCEPT ![batch_i] = "started"]
    /\ UNCHANGED <<missions, batch_pc, batch_i, batch_exc, tools_run>>
    /\ UNCHANGED <<planVars, segVars, pipeVars, fnVars, muxVars, seriesVars, checkVars, opusVars, shortenVars, extractVars>>

\* transcode() up to the copy of the video stream: the remultiplexer and
\* the extractors run, and succeed or exit with an error.
MissionTools ==
    /\ batch_pc = "run"
    /\ batch_i \in DOMAIN missions
    /\ mission_state[batch_i] = "started"
    /\ tools_run' = tools_run \cup {batch_i}
    /\ \E ok \in BOOLEAN :
          IF ok
          THEN /\ mission_state' = [mission_state EXCEPT ![batch_i] = "tools"]
               /\ UNCHANGED <<batch_pc, batch_exc>>
          ELSE BatchRaise("ChildProcessError")
    /\ UNCHANGED <<missions, batch_i>>
    /\ UNCHANGED <<planVars, segVars, pipeVars, fnVars, muxVars, seriesVars, checkVars, opusVars, shortenVars, extractVars>>

\* _video_stream_process builds the encoder object after the copy: its
\* constructor looks for the necessary placeholders of the command template.
MissionEncoderInit ==
    /\ batch_pc = "run"
    /\ batch_i \in DOMAIN missions
    /\ mission_state[batch_i] = "tools"
    /\ IF missions[batch_i].template_ok
       THEN /\ mission_state' = [mission_state EXCEPT ![batch_i] = "encoding"]
            /\ UNCHANGED <<batch_pc, batch_exc>>
       ELSE BatchRaise("MissTemplateError")
    /\ UNCHANGED <<missions, batch_i, tools_run>>
    /\ UNCHANGED <<planVars, segVars, pipeVars, fnVars, muxVars, seriesVars, checkVars, opusVars, shortenVars, extractVars>>

\* The rest of transcode(): encode, multiplex, delete the cache files and
\* return the output path, or an exception of one of these steps.
MissionFinish ==
    /\ batch_pc = "run"
    /\ batch_i \in DOMAIN missions
    /\ mission_state[batch_i] = "encoding"
    /\ \E ok \in BOOLEAN :
          IF ok
          THEN /\ mission_state' = [mission_state EXCEPT ![batch_i] = "done"]
               /\ batch_i' = batch_i + 1
               /\ UNCHANGED <<batch_pc, batch_exc>>
          ELSE /\ BatchRaise("ChildProcessError")
               /\ UNCHANGED batch_i
    /\ UNCHANGED <<missions, tools_run>>
    /\ UNCHANGED <<planVars, segVars, pipeVars, fnVars, muxVars, seriesVars, checkVars, opusVars, shortenVars, extractVars>>

\* The second loop is exhausted: transcode_all_missions returns.
BatchReturn ==
    /\ batch_pc = "run"
    /\ batch_i > Len(missions)
    /\ batch_pc' = "done"
    /\ UNCHANGED <<missions, batch_i, mission_state, batch_exc, tools_run>>
    /\ UNCHANGED <<planVars, segVars, pipeVars, fnVars, muxVars, seriesVars, checkVars, opusVars, shortenVars, extractVars>>

BatchNext ==
    \/ BatchValidateOk
    \/ BatchValidateRaise
    \/ BatchValidated
    \/ MissionStart
    \/ MissionTools
    \/ MissionEncoderInit
    \/ MissionFinish
    \/ BatchReturn

BatchSpecInit == BatchInit /\ PlanIdle /\ SegOff /\ PipeOff /\ FnOff /\ MuxOff /\ SeriesOff /\ CheckOff /\ OpusOff /\ ShortenOff /\ ExtractOff

BatchSpec == BatchSpecInit /\ [][BatchNext]_vars

----------------------------------------------------------------------------
(* FnSpec: the expansion of an episode_list string in                      *)
(* transcode_all_missions, and the frame rate of a video track from        *)
(* MediaInfo's fields to the reduced fps_num / fps_den the encoders use.   *)

\* re.search("(\d+)~(\d+)", s): the "~" that have a digit on both sides.
Tildes(s) ==
    {i \in 2..(Len(s) - 1) : s[i] = "~" /\ IsDigit(s[i - 1]) /\ IsDigit(s[i + 1])}

\* first position of the run of digits that ends at position i
RunStart(s, i) ==
    CHOOSE a \in 1..i :
        /\ \A k \in a..i : IsDigit(s[k])
        /\ a = 1 \/ ~IsDigit(s[a - 1])

\* last position of the run of digits that starts at position i
RunEnd(s, i) ==
    CHOOSE b \in i..Len(s) :
        /\ \A k \in i..b : IsDigit(s[k])
        /\ b = Len(s) \/ ~IsDigit(s[b + 1])

\* The two groups of the leftmost match, each taken greedily; <<>> for None.
EpisodeSearch(s) ==
    IF Tildes(s) = {} THEN <<>>
    ELSE LET t == CHOOSE i \in Tildes(s) : \A k \in Tildes(s) : i <= k
         IN  <<SubSeq(s, RunStart(s, t - 1), t - 1),
               SubSeq(s, t + 1, RunEnd(s, t + 1))>>

\* list(range(start, stop, step)), step # 0
RECURSIVE PyRange(_, _, _)
PyRange(start, stop, step) ==
    IF (step > 0 /\ start >= stop) \/ (step < 0 /\ start <= stop)
    THEN <<>>
    ELSE <<start>> \o PyRange(start + step, stop, step)

\* A range that stops before last_episode.
EpisodeRangeExclusive(first_episode, last_episode) ==
    LET step == IF first_episode > last_episode THEN -1 ELSE 1
    IN  PyRange(first_episode, last_episode, step)

\* step is 1, or -1 when first_episode > last_episode, and the list is
\* range(first_episode, last_episode + step, step).
EpisodeRange(first_episode, last_episode) ==
    LET step == IF first_episode > last_episode THEN -1 ELSE 1
    IN  PyRange(first_episode, last_episode + step, step)

\* transcode_all_missions on a str episode_list: the list, or ValueError
\* when the pattern is not found.
ExpandEpisodeList ==
    /\ fn_kind = "episode"
    /\ fn_pc = "new"
    /\ LET re_result == EpisodeSearch(fn_arg)
       IN  IF re_result = <<>>
           THEN /\ fn_pc' = "raised"
                /\ fn_res' = <<"ValueError">>
           ELSE /\ fn_pc' = "applied"
                /\ fn_res' = <<EpisodeRange(ParseInt(re_result[1]),
                                            ParseInt(re_result[2]))>>
    /\ UNCHANGED <<fn_kind, fn_arg>>
    /\ UNCHANGED <<planVars, segVars, pipeVars, batchVars, muxVars, seriesVars, checkVars, opusVars, shortenVars, extractVars>>

\* The end of get_proper_frame_rate: the three rates MediaInfo reports in
\* thousandths are replaced by their NTSC fractions.
FixupFrameRate(fps) ==
    CASE fps = Frac(23976, 1000) -> Frac(24000, 1001)
      [] fps = Frac(29970, 1000) -> Frac(30000, 1001)
      [] fps = Frac(59940, 1000) -> Frac(60000, 1001)
      [] OTHER -> fps

RECURSIVE Gcd(_, _)
Gcd(a, b) == IF b = 0 THEN a ELSE Gcd(b, a % b)

\* A reduction that only halves an even numerator and denominator once.
HalveFraction(numerator, denominator) ==
    IF numerator % 2 = 0 /\ denominator % 2 = 0
    THEN [numerator |-> numerator \div 2, denominator |-> denominator \div 2]
    ELSE [numerator |-> numerator, denominator |-> denominator]

\* get_reduced_fraction: the fraction in lowest terms.
ReducedFraction(numerator, denominator) ==
    LET g == Gcd(numerator, denominator)
    IN  [numerator |-> numerator \div g, denominator |-> denominator \div g]

\* the positions of character c in s
Positions(s, c) == {i \in DOMAIN s : s[i] = c}

\* the characters of s other than c: s.replace(c, "")
RECURSIVE Without(_, _)
Without(s, c) ==
    IF s = <<>> THEN <<>>
    ELSE (IF s[1] = c THEN <<>> ELSE <<s[1]>>) \o Without(Tail(s), c)

\* the first three decimals of a digit string, padded with "0"
Thousandths(frac) == ParseInt(SubSeq(frac \o <<"0", "0", "0">>, 1, 3))

\* get_fpsnum_and_fpsden raising ValueError
FpsValueError == [raised |-> TRUE, fps_num |-> 0, fps_den |-> 1]

\* get_fpsnum_and_fpsden before the reduction.  "n/d" gives the two ints.
\* A decimal goes through float: a whole number gives n/1, any other gives
\* int(fps_float * 1000)/1000, where the product of the two floats can fall
\* just below the exact thousandths (short = 1) or not (short = 0).
FpsNumAndDen(fps, short) ==
    IF Positions(fps, "/") # {}
    THEN IF Cardinality(Positions(fps, "/")) # 1
         THEN FpsValueError
         ELSE LET p == CHOOSE i \in Positions(fps, "/") : TRUE
              IN  [raised |-> FALSE,
                   fps_num |-> ParseInt(SubSeq(fps, 1, p - 1)),
                   fps_den |-> ParseInt(SubSeq(fps, p + 1, Len(fps)))]
    ELSE IF /\ Without(fps, ".") # <<>>
            /\ \A i \in DOMAIN fps : (IsDigit(fps[i]) \/ fps[i] = ".")
            /\ Cardinality(Positions(fps, ".")) <= 1
         THEN LET p == IF Positions(fps, ".") = {} THEN Len(fps) + 1
                       ELSE CHOOSE i \in Positions(fps, ".") : TRUE
                  whole == ParseInt(SubSeq(fps, 1, p - 1))
                  frac == SubSeq(fps, p + 1, Len(fps))
              IN  IF ParseInt(frac) = 0
                  THEN [raised |-> FALSE, fps_num |-> whole, fps_den |-> 1]
                  ELSE [raised |-> FALSE,
                        fps_num |-> whole * 1000 + Thousandths(frac) - short,
                        fps_den |-> 1000]
         ELSE FpsValueError

\* The frame rate from MediaInfo's string to the reduced fraction, written
\* again as "fps_num/fps_den".
NormalizeFps(fps, short) ==
    LET info == FpsNumAndDen(FixupFrameRate(fps), short)
    IN  IF info.raised THEN <<"ValueError">>
        ELSE LET r == ReducedFraction(info.fps_num, info.fps_den)
             IN  Frac(r.numerator, r.denominator)

\* get_proper_frame_rate and get_fpsnum_and_fpsden on the argument, then on
\* their own result.
NormalizeFrameRate ==
    /\ fn_kind = "fps"
    /\ fn_pc \in {"new", "applied"}
    /\ \E short \in {0, 1} :
          LET x == IF fn_pc = "new" THEN fn_arg ELSE fn_res[1]
              y == NormalizeFps(x, short)
          IN  IF y = <<"ValueError">>
              THEN /\ fn_pc' = "raised"
                   /\ fn_res' = Append(fn_res, y)
              ELSE /\ fn_pc' = IF fn_pc = "new" THEN "applied" ELSE "reapplied"
                   /\ fn_res' = Append(fn_res, y)
    /\ UNCHANGED <<fn_kind, fn_arg>>
    /\ UNCHANGED <<planVars, segVars, pipeVars, batchVars, muxVars, seriesVars, checkVars, opusVars, shortenVars, extractVars>>

FnNext ==
    \/ ExpandEpisodeList
    \/ NormalizeFrameRate

FnSpecInit == FnInit /\ PlanIdle /\ SegOff /\ PipeOff /\ BatchOff /\ MuxOff /\ SeriesOff /\ CheckOff /\ OpusOff /\ ShortenOff /\ ExtractOff

FnSpec == FnSpecInit /\ [][FnNext]_vars

----------------------------------------------------------------------------
(* OutputFpsSpec: _get_proper_output_fps over the frame rate of the source *)
(* and the output_fps of the config.                                       *)

\* A rescale that gives N for every source.
CalOutputFpsAsGiven(original_fps, output_fps, short) ==
    LET number == SubSeq(output_fps, 1, Len(output_fps) - 3)
        point == Positions(number, ".")
        whole == IF point = {} THEN number
                 ELSE SubSeq(number, 1, (CHOOSE p \in point : TRUE) - 1)
    IN  Str(ParseInt(whole))

\* _cal_proper_output_fps: int(float()) of output_fps without "fps" drops
\* the decimals; the source rate is read by get_fpsnum_and_fpsden.  A source
\* denominator of 1001 gives "N000/1001", a denominator of 1 gives N, any
\* other denominator raises ValueError.  The result as str() writes it.
CalProperOutputFps(original_fps, output_fps, short) ==
    LET number == SubSeq(output_fps, 1, Len(output_fps) - 3)
        point == Positions(number, ".")
        whole == IF point = {} THEN number
                 ELSE SubSeq(number, 1, (CHOOSE p \in point : TRUE) - 1)
        output_fps_int == ParseInt(whole)
        info == FpsNumAndDen(original_fps, short)
        original_fps_info == ReducedFraction(info.fps_num, info.fps_den)
    IN  IF info.raised THEN <<"ValueError">>
        ELSE IF original_fps_info.denominator = 1001
             THEN Frac(output_fps_int * 1000, original_fps_info.denominator)
        ELSE IF original_fps_info.denominator = 1
             THEN Str(output_fps_int)
        ELSE <<"ValueError">>

\* _get_proper_output_fps
GetProperOutputFps ==
    /\ fn_kind = "output_fps"
    /\ fn_pc = "new"
    /\ \E short \in {0, 1} :
          LET output_fps == fn_arg.output_fps
              fps == IF output_fps = <<>> THEN fn_arg.original_fps
                     ELSE IF /\ Len(output_fps) >= 3
                             /\ SubSeq(output_fps, Len(output_fps) - 2,
                                       Len(output_fps)) = <<"f", "p", "s">>
                          THEN CalProperOutputFps(fn_arg.original_fps,
                                                  output_fps, short)
                          ELSE output_fps
          IN  /\ fn_pc' = IF fps = <<"ValueError">> THEN "raised" ELSE "applied"
              /\ fn_res' = <<fps>>
    /\ UNCHANGED <<fn_kind, fn_arg>>
    /\ UNCHANGED <<planVars, segVars, pipeVars, batchVars, muxVars, seriesVars, checkVars, opusVars, shortenVars, extractVars>>

OutputFpsNext == GetProperOutputFps

OutputFpsSpecInit == OutputFpsInit /\ PlanIdle /\ SegOff /\ PipeOff /\ BatchOff /\ MuxOff /\ SeriesOff /\ CheckOff /\ OpusOff /\ ShortenOff /\ ExtractOff

OutputFpsSpec == OutputFpsSpecInit /\ [][OutputFpsNext]_vars

----------------------------------------------------------------------------
(* ResortSpec: resort over track lists and order lists.                    *)

\* resort(src, order_list).  A longer order_list raises ValueError.  The
\* RangeError for an order_list that is no arrangement of its own indexes is
\* built and dropped: there is no raise in front of it.  order_list is then
\* filled up with the indexes it lacks, and sorted() arranges src by the key
\* order_list[src.index(x)], the entry at the first position that holds a
\* value equal to x; elements of equal key keep their order.
Resort(src, order_list) ==
    IF Len(order_list) > Len(src)
    THEN [raised |-> "ValueError", list |-> <<>>]
    ELSE LET filled == [p \in 1..Len(src) |->
                           IF p <= Len(order_list) THEN order_list[p] ELSE p - 1]
             index(x) == CHOOSE j \in Positions(src, x) :
                             \A other \in Positions(src, x) : j <= other
             key(i) == filled[index(src[i])]
             rank(i) == 1 + Cardinality({j \in 1..Len(src) :
                                \/ key(j) < key(i)
                                \/ (key(j) = key(i) /\ j < i)})
         IN  [raised |-> "none",
              list |-> [r \in 1..Len(src) |->
                           src[CHOOSE i \in 1..Len(src) : rank(i) = r]]]

ResortApply ==
    /\ fn_kind = "resort"
    /\ fn_pc = "new"
    /\ LET result == Resort(fn_arg.src, fn_arg.order_list)
       IN  IF result.raised # "none"
           THEN /\ fn_pc' = "raised"
                /\ fn_res' = <<result.raised>>
           ELSE /\ fn_pc' = "applied"
                /\ fn_res' = <<result.list>>
    /\ UNCHANGED <<fn_kind, fn_arg>>
    /\ UNCHANGED <<planVars, segVars, pipeVars, batchVars, muxVars, seriesVars, checkVars, opusVars, shortenVars, extractVars>>

ResortNext == ResortApply

ResortSpecInit == ResortInit /\ PlanIdle /\ SegOff /\ PipeOff /\ BatchOff /\ MuxOff /\ SeriesOff /\ CheckOff /\ OpusOff /\ ShortenOff /\ ExtractOff

ResortSpec == ResortSpecInit /\ [][ResortNext]_vars

----------------------------------------------------------------------------
(* MuxSpec: multiplex_mkv called again and again for the same output       *)
(* directory and name, with or without add_valid_mark_bool; the process    *)
(* can be killed at any point of a call.                                   *)

\* multiplex_mkv is called: the type checks pass and the paths are built.
MuxCall ==
    /\ mux_pc = "idle"
    /\ mux_calls < MaxCalls
    /\ mux_calls' = mux_calls + 1
    /\ \E mark \in BOOLEAN :
          /\ add_valid_mark_bool' = mark
          /\ mux_pc' = IF mark THEN "remove" ELSE "start"
    /\ mux_result' = [end |-> "none", path |-> "", file |-> "none"]
    /\ UNCHANGED <<output_file, valid_output_file, return_code, found_at_start>>
    /\ UNCHANGED <<planVars, segVars, pipeVars, batchVars, fnVars, seriesVars, checkVars, opusVars, shortenVars, extractVars>>

\* A call that leaves the file at output_filepath where it is.
MuxKeepUnmarked ==
    /\ mux_pc = "remove"
    /\ mux_pc' = "skip_check"
    /\ UNCHANGED <<add_valid_mark_bool, output_file, valid_output_file,
                   return_code, mux_result, mux_calls, found_at_start>>
    /\ UNCHANGED <<planVars, segVars, pipeVars, batchVars, fnVars, seriesVars, checkVars, opusVars, shortenVars, extractVars>>

\* add_valid_mark_bool: if os.path.isfile(output_filepath): os.remove(...)
MuxRemoveUnmarked ==
    /\ mux_pc = "remove"
    /\ output_file' = "none"
    /\ mux_pc' = "skip_check"
    /\ UNCHANGED <<add_valid_mark_bool, valid_output_file, return_code,
                   mux_result, mux_calls, found_at_start>>
    /\ UNCHANGED <<planVars, segVars, pipeVars, batchVars, fnVars, seriesVars, checkVars, opusVars, shortenVars, extractVars>>

\* add_valid_mark_bool: a marked file that exists is returned and nothing is
\* muxed; otherwise the command line is built.
MuxSkipOrGoOn ==
    /\ mux_pc = "skip_check"
    /\ IF valid_output_file # "none"
       THEN /\ mux_pc' = "idle"
            /\ mux_result' = [end |-> "returned", path |-> "valid",
                              file |-> valid_output_file]
       ELSE /\ mux_pc' = "start"
            /\ mux_result' = mux_result
    /\ UNCHANGED <<add_valid_mark_bool, output_file, valid_output_file,
                   return_code, mux_calls, found_at_start>>
    /\ UNCHANGED <<planVars, segVars, pipeVars, batchVars, fnVars, seriesVars, checkVars, opusVars, shortenVars, extractVars>>

\* subprocess.Popen: mkvmerge starts and opens its output for writing, or
\* stops before it has opened it.
MuxStart ==
    /\ mux_pc = "start"
    /\ mux_pc' = "running"
    /\ found_at_start' = output_file
    /\ \E opened \in BOOLEAN :
          output_file' = IF opened THEN "partial" ELSE output_file
    /\ UNCHANGED <<add_valid_mark_bool, valid_output_file, return_code,
                   mux_result, mux_calls>>
    /\ UNCHANGED <<planVars, segVars, pipeVars, batchVars, fnVars, seriesVars, checkVars, opusVars, shortenVars, extractVars>>

\* mkvmerge exits: 0 and 1 (warnings) with the whole output written, any
\* other code with whatever it had written.
MuxExit ==
    /\ mux_pc = "running"
    /\ mux_pc' = "exited"
    /\ \E rc \in {0, 1, 2} :
          /\ return_code' = rc
          /\ output_file' = IF rc \in {0, 1} THEN "complete" ELSE output_file
    /\ UNCHANGED <<add_valid_mark_bool, valid_output_file, mux_result,
                   mux_calls, found_at_start>>
    /\ UNCHANGED <<planVars, segVars, pipeVars, batchVars, fnVars, seriesVars, checkVars, opusVars, shortenVars, extractVars>>

\* After the process: return codes 0 and 1 go on to the rename of the output
\* to the marked name (add_valid_mark_bool) and the return of the path; any
\* other code raises.
MuxFinish ==
    /\ mux_pc = "exited"
    /\ mux_pc' = "idle"
    /\ IF return_code \in {0, 1}
       THEN IF add_valid_mark_bool
            THEN /\ valid_output_file' = output_file
                 /\ output_file' = "none"
                 /\ mux_result' = [end |-> "returned", path |-> "valid",
                                   file |-> output_file]
            ELSE /\ mux_result' = [end |-> "returned", path |-> "output",
                                   file |-> output_file]
                 /\ UNCHANGED <<output_file, valid_output_file>>
       ELSE /\ mux_result' = [end |-> "raised", path |-> "", file |-> "none"]
            /\ UNCHANGED <<output_file, valid_output_file>>
    /\ UNCHANGED <<add_valid_mark_bool, return_code, mux_calls, found_at_start>>
    /\ UNCHANGED <<planVars, segVars, pipeVars, batchVars, fnVars, seriesVars, checkVars, opusVars, shortenVars, extractVars>>

\* The process is killed in the middle of a call, mkvmerge with it: the
\* files stay as they are.
MuxKill ==
    /\ mux_pc \in {"remove", "skip_check", "start", "running", "exited"}
    /\ mux_pc' = "idle"
    /\ mux_result' = [end |-> "killed", path |-> "", file |-> "none"]
    /\ UNCHANGED <<add_valid_mark_bool, output_file, valid_output_file,
                   return_code, mux_calls, found_at_start>>
    /\ UNCHANGED <<planVars, segVars, pipeVars, batchVars, fnVars, seriesVars, checkVars, opusVars, shortenVars, extractVars>>

MuxNext ==
    \/ MuxCall
    \/ MuxRemoveUnmarked
    \/ MuxSkipOrGoOn
    \/ MuxStart
    \/ MuxExit
    \/ MuxFinish
    \/ MuxKill

MuxSpecInit == MuxInit /\ PlanIdle /\ SegOff /\ PipeOff /\ BatchOff /\ FnOff /\ SeriesOff /\ CheckOff /\ OpusOff /\ ShortenOff /\ ExtractOff

MuxSpec == MuxSpecInit /\ [][MuxNext]_vars

----------------------------------------------------------------------------
(* SeriesSpec: SeriesVideoTranscoding.transcode() of one series mission,   *)
(* over what the video, subtitle and audio directories hold.               *)

\* length_check: a warning when the sources and the videos differ in number.
LengthMismatch(info_list) ==
    info_list # <<>>
        /\ \E i \in DOMAIN info_list :
               Cardinality(info_list[i]) # Cardinality(video_info)

\* any(str(int(episode_num)) not in info.keys() for episode_num in
\* self._episode_list), for some source of the list
EpisodeMismatch(info_list) ==
    \E i \in DOMAIN info_list :
        \E k \in DOMAIN episode_list : episode_list[k] \notin info_list[i]

\* transcode() up to the episode loop: the directories are listed, the
\* warnings about numbers and about listed episodes are issued, and the
\* number of videos is compared with the number of listed episodes.
SeriesScan ==
    /\ series_pc = "new"
    /\ series_warnings' =
           (IF LengthMismatch(subtitle_info_list) \/ LengthMismatch(audio_info_list)
            THEN {"length"} ELSE {})
           \cup (IF EpisodeMismatch(subtitle_info_list) THEN {"subtitles"} ELSE {})
           \cup (IF EpisodeMismatch(audio_info_list) THEN {"audios"} ELSE {})
    /\ IF Cardinality(video_info) < Len(episode_list)
       THEN /\ series_pc' = "failed"
            /\ series_exc' = "ValueError"
       ELSE /\ series_pc' = "loop"
            /\ series_exc' = series_exc
    /\ UNCHANGED <<episode_list, video_info, subtitle_info_list, audio_info_list,
                   series_i, series_done>>
    /\ UNCHANGED <<planVars, segVars, pipeVars, batchVars, fnVars, muxVars, checkVars, opusVars, shortenVars, extractVars>>

\* The episode loop: video_info[str(episode_num)] of an episode that has no
\* video.
SeriesEpisodeKeyError ==
    /\ series_pc = "loop"
    /\ series_i \in DOMAIN episode_list
    /\ episode_list[series_i] \notin video_info
    /\ series_pc' = "failed"
    /\ series_exc' = "KeyError"
    /\ UNCHANGED <<episode_list, video_info, subtitle_info_list, audio_info_list,
                   series_i, series_warnings, series_done>>
    /\ UNCHANGED <<planVars, segVars, pipeVars, batchVars, fnVars, muxVars, checkVars, opusVars, shortenVars, extractVars>>

\* The episode loop: the episode's config is built from the sources that
\* have the episode, CompleteVideoTranscoding(...).transcode() returns or
\* raises.
SeriesEpisodeTranscode ==
    /\ series_pc = "loop"
    /\ series_i \in DOMAIN episode_list
    /\ episode_list[series_i] \in video_info
    /\ \E ok \in BOOLEAN :
          IF ok
          THEN /\ series_done' = Append(series_done, episode_list[series_i])
               /\ series_i' = series_i + 1
               /\ UNCHANGED <<series_pc, series_exc>>
          ELSE /\ series_pc' = "failed"
               /\ series_exc' = "ChildProcessError"
               /\ UNCHANGED <<series_i, series_done>>
    /\ UNCHANGED <<episode_list, video_info, subtitle_info_list, audio_info_list,
                   series_warnings>>
    /\ UNCHANGED <<planVars, segVars, pipeVars, batchVars, fnVars, muxVars, checkVars, opusVars, shortenVars, extractVars>>

\* The episode loop is exhausted: transcode() returns.
SeriesReturn ==
    /\ series_pc = "loop"
    /\ series_i > Len(episode_list)
    /\ series_pc' = "done"
    /\ UNCHANGED <<episode_list, video_info, subtitle_info_list, audio_info_list,
                   series_i, series_warnings, series_done, series_exc>>
    /\ UNCHANGED <<planVars, segVars, pipeVars, batchVars, fnVars, muxVars, checkVars, opusVars, shortenVars, extractVars>>

SeriesNext ==
    \/ SeriesScan
    \/ SeriesEpisodeKeyError
    \/ SeriesEpisodeTranscode
    \/ SeriesReturn

SeriesSpecInit == SeriesInit /\ PlanIdle /\ SegOff /\ PipeOff /\ BatchOff /\ FnOff /\ MuxOff /\ CheckOff /\ OpusOff /\ ShortenOff /\ ExtractOff

SeriesSpec == SeriesSpecInit /\ [][SeriesNext]_vars

----------------------------------------------------------------------------
(* CheckSpec: the first loop of transcode_all_missions over the input and  *)
(* output paths of a batch of "single" missions.                           *)

\* A get_output_filepath_set that names no output.
NoOutputFilepath(mission) == {}

\* get_output_filepath_set of a "single" mission
GetOutputFilepathSet(mission) == {mission.output}

\* config_pre_check, the test of input_video_filepath: not a file, and not
\* the absolute path of any member of all_output_filepath_set.
InputRejected(mission, output_set) ==
    /\ AbsPath(mission.input) \notin check_disk
    /\ \A filepath \in output_set : AbsPath(mission.input) # AbsPath(filepath)

\* One mission of the first loop: config_pre_check returns, the mission's
\* outputs join all_output_filepath_set.
ConfigPreCheckOk ==
    /\ check_pc = "validate"
    /\ check_i \in DOMAIN check_missions
    /\ ~InputRejected(check_missions[check_i], all_output_filepath_set)
    /\ all_output_filepath_set' =
           all_output_filepath_set \cup GetOutputFilepathSet(check_missions[check_i])
    /\ check_accepted' = check_accepted \cup {check_i}
    /\ check_i' = check_i + 1
    /\ UNCHANGED <<check_pc, check_missions, check_disk>>
    /\ UNCHANGED <<planVars, segVars, pipeVars, batchVars, fnVars, muxVars, seriesVars, opusVars, shortenVars, extractVars>>

\* One mission of the first loop: config_pre_check raises ValueError.
ConfigPreCheckRaise ==
    /\ check_pc = "validate"
    /\ check_i \in DOMAIN check_missions
    /\ InputRejected(check_missions[check_i], all_output_filepath_set)
    /\ check_pc' = "raised"
    /\ UNCHANGED <<check_missions, check_disk, all_output_filepath_set, check_i,
                   check_accepted>>
    /\ UNCHANGED <<planVars, segVars, pipeVars, batchVars, fnVars, muxVars, seriesVars, opusVars, shortenVars, extractVars>>

\* The first loop is exhausted.
ConfigPreCheckDone ==
    /\ check_pc = "validate"
    /\ check_i > Len(check_missions)
    /\ check_pc' = "validated"
    /\ UNCHANGED <<check_missions, check_disk, all_output_filepath_set, check_i,
                   check_accepted>>
    /\ UNCHANGED <<planVars, segVars, pipeVars, batchVars, fnVars, muxVars, seriesVars, opusVars, shortenVars, extractVars>>

CheckNext ==
    \/ ConfigPreCheckOk
    \/ ConfigPreCheckRaise
    \/ ConfigPreCheckDone

CheckSpecInit == CheckInit /\ PlanIdle /\ SegOff /\ PipeOff /\ BatchOff /\ FnOff /\ MuxOff /\ SeriesOff /\ OpusOff /\ ShortenOff /\ ExtractOff

CheckSpec == CheckSpecInit /\ [][CheckNext]_vars

----------------------------------------------------------------------------
(* OpusSpec: one call of transcode_audio_opus, with the step through       *)
(* transcode_audio_ffmpeg for an input opusenc does not read.              *)

\* An input opusenc does not read: transcode_audio_ffmpeg to .flac, called
\* with the caller's delete_input_file_bool; ffmpeg exits, a non-zero code
\* raises, otherwise the input is removed when asked (the .flac is another
\* file) and the .flac becomes input_audio_filepath.
TranscodeAudioFfmpeg ==
    /\ opus_pc = "new"
    /\ opus_arg.ext \notin opusenc_support_suffix_set
    /\ \E rc \in 0..3 :
          /\ opus_rc' = rc
          /\ IF rc = 0
             THEN /\ opus_files' =
                         (opus_files \cup {"flac"})
                             \ (IF opus_arg.delete_input_file_bool /\ "in" # "flac"
                                THEN {"in"} ELSE {})
                  /\ input_audio_filepath' = "flac"
                  /\ opus_pc' = "flac"
             ELSE /\ opus_pc' = "raised"
                  /\ UNCHANGED <<opus_files, input_audio_filepath>>
    /\ UNCHANGED opus_arg
    /\ UNCHANGED <<planVars, segVars, pipeVars, batchVars, fnVars, muxVars, seriesVars, checkVars, shortenVars, extractVars>>

\* opusenc (behind opusdec for an .opus input) exits: a non-zero code
\* raises; otherwise the .flac of the step before is removed, or the input
\* is, when asked and when it is not the output file; the output path is
\* returned.
TranscodeAudioOpus ==
    /\ \/ opus_pc = "new" /\ opus_arg.ext \in opusenc_support_suffix_set
       \/ opus_pc = "flac"
    /\ \E rc \in 0..3 :
          /\ opus_rc' = rc
          /\ IF rc = 0
             THEN /\ opus_files' =
                         (opus_files \cup {OpusOutputFilepath})
                             \ (IF opus_arg.ext \notin opusenc_support_suffix_set
                                THEN {input_audio_filepath}
                                ELSE IF opus_arg.delete_input_file_bool
                                        /\ input_audio_filepath # OpusOutputFilepath
                                     THEN {input_audio_filepath}
                                     ELSE {})
                  /\ opus_pc' = "returned"
             ELSE /\ opus_pc' = "raised"
                  /\ UNCHANGED opus_files
    /\ UNCHANGED <<opus_arg, input_audio_filepath>>
    /\ UNCHANGED <<planVars, segVars, pipeVars, batchVars, fnVars, muxVars, seriesVars, checkVars, shortenVars, extractVars>>

OpusNext ==
    \/ TranscodeAudioFfmpeg
    \/ TranscodeAudioOpus

OpusSpecInit == OpusInit /\ PlanIdle /\ SegOff /\ PipeOff /\ BatchOff /\ FnOff /\ MuxOff /\ SeriesOff /\ CheckOff /\ ShortenOff /\ ExtractOff

OpusSpec == OpusSpecInit /\ [][OpusNext]_vars

----------------------------------------------------------------------------
(* ShortenSpec: shorten_inputfile_paths over the inputs of one title.      *)

\* copy2new_dir: the file is copied to output_dir under its own file name.
Copy2NewDir(src_filepath, output_dir_len) ==
    PathOf("cache", output_dir_len, src_filepath.name_len)

\* One input of shorten_inputfile_paths.  A path longer than
\* max_path_length is copied to the cache directory; the config then takes
\* the copy's path and the copy joins the remove-set.  The attachment list
\* holds strings: the item assignment on its element raises TypeError after
\* the copy was made.
ShortenInputfilePath ==
    /\ shorten_pc = "run"
    /\ shorten_i \in DOMAIN InputKinds
    /\ LET kind == InputKinds[shorten_i]
           filepath == used_paths[kind]
           output_filepath == Copy2NewDir(filepath, cache_len)
       IN  IF PathLen(filepath) > max_path_length
           THEN /\ cache_copies' = cache_copies \cup {output_filepath}
                /\ IF kind = "attachment"
                   THEN /\ shorten_pc' = "raised"
                        /\ UNCHANGED <<shorten_i, used_paths, remove_filepath_set>>
                   ELSE /\ used_paths' = [used_paths EXCEPT ![kind] = output_filepath]
                        /\ remove_filepath_set' =
                               remove_filepath_set \cup {output_filepath}
                        /\ shorten_i' = shorten_i + 1
                        /\ UNCHANGED shorten_pc
           ELSE /\ shorten_i' = shorten_i + 1
                /\ UNCHANGED <<shorten_pc, used_paths, cache_copies,
                               remove_filepath_set>>
    /\ UNCHANGED <<cache_len, input_paths>>
    /\ UNCHANGED <<planVars, segVars, pipeVars, batchVars, fnVars, muxVars, seriesVars, checkVars, opusVars, extractVars>>

\* The method returns after the video.
ShortenReturn ==
    /\ shorten_pc = "run"
    /\ shorten_i > Len(InputKinds)
    /\ shorten_pc' = "done"
    /\ UNCHANGED <<shorten_i, cache_len, input_paths, used_paths, cache_copies,
                   remove_filepath_set>>
    /\ UNCHANGED <<planVars, segVars, pipeVars, batchVars, fnVars, muxVars, seriesVars, checkVars, opusVars, extractVars>>

ShortenNext ==
    \/ ShortenInputfilePath
    \/ ShortenReturn

ShortenSpecInit == ShortenInit /\ PlanIdle /\ SegOff /\ PipeOff /\ BatchOff /\ FnOff /\ MuxOff /\ SeriesOff /\ CheckOff /\ OpusOff /\ ExtractOff

ShortenSpec == ShortenSpecInit /\ [][ShortenNext]_vars

----------------------------------------------------------------------------
(* ToolExitSpec: multiplex_mkv and extract_track_mkvextract, each over the *)
(* return code of its tool.                                                *)

\* mkvextract exits.
ExtractExit ==
    /\ extract_pc = "running"
    /\ extract_pc' = "exited"
    /\ \E rc \in {0, 1, 2} : extract_rc' = rc
    /\ UNCHANGED extract_result
    /\ UNCHANGED <<planVars, segVars, pipeVars, batchVars, fnVars, muxVars, seriesVars, checkVars, opusVars, shortenVars>>

\* A call for which only return code 0 goes on to the return.
ExtractFinishZeroOnly ==
    /\ extract_pc = "exited"
    /\ IF extract_rc = 0
       THEN /\ extract_pc' = "returned"
            /\ extract_result' = [path |-> "output", exc |-> "none"]
       ELSE /\ extract_pc' = "raised"
            /\ extract_result' = [path |-> "", exc |-> "CalledProcessError"]
    /\ UNCHANGED extract_rc
    /\ UNCHANGED <<planVars, segVars, pipeVars, batchVars, fnVars, muxVars, seriesVars, checkVars, opusVars, shortenVars>>

\* After the process: return code 0 and return code 1 (the warning is
\* logged) go on to return output_filepath. For any other code the raise
\* statement builds CalledProcessError(output=stdout_text_str), and
\* stdout_text_str is assigned in the branch of return code 1 only: the
\* exception that leaves the function is UnboundLocalError.
ExtractFinish ==
    /\ extract_pc = "exited"
    /\ IF extract_rc \in {0, 1}
       THEN /\ extract_pc' = "returned"
            /\ extract_result' = [path |-> "output", exc |-> "none"]
       ELSE /\ extract_pc' = "raised"
            /\ extract_result' = [path |-> "", exc |-> "UnboundLocalError"]
    /\ UNCHANGED extract_rc
    /\ UNCHANGED <<planVars, segVars, pipeVars, batchVars, fnVars, muxVars, seriesVars, checkVars, opusVars, shortenVars>>

ToolExitNext == MuxNext \/ ExtractExit \/ ExtractFinish

ToolExitSpecInit == MuxInit /\ ExtractInit /\ PlanIdle /\ SegOff /\ PipeOff /\ BatchOff /\ FnOff /\ SeriesOff /\ CheckOff /\ OpusOff /\ ShortenOff

ToolExitSpec == ToolExitSpecInit /\ [][ToolExitNext]_vars

----------------------------------------------------------------------------
(* Properties *)

\* C1 (Spec): in either mode and under every interleaving, the audio sub-flow
\* has not started (its first demux has not begun) while io_complete is false.
C1_AudioAfterIoComplete == audio_pc # "idle" => io_complete

\* C2 (Spec): io_complete is true only when the video sub-flow has finished
\* extracting or copying the source video.
C2_IoCompleteAfterVideoIo == io_complete => video_io_done

\* The frame indices of a shard.
ShardFrames(sh) == sh[1]..sh[2]

\* C3 (PlanSpec): the shards issued for an accepted plan are sorted ascending,
\* pairwise disjoint, and their union is the target frame range.
C3_PlanCoversRange ==
    plan_pc = "issued" =>
        /\ \A i \in 1..(Len(plan_shards) - 1) :
               plan_shards[i][1] < plan_shards[i + 1][1]
        /\ \A i \in DOMAIN plan_shards : \A j \in DOMAIN plan_shards :
               i # j => ShardFrames(plan_shards[i]) \cap ShardFrames(plan_shards[j]) = {}
        /\ UNION { ShardFrames(plan_shards[i]) : i \in DOMAIN plan_shards }
               = plan_first..plan_last

\* C32 (PlanSpec): with an output rate that differs from the source rate,
\* the endpoints of every interval that is encoded, configured or filled in,
\* are round(source index * output_fps / source_fps) of the endpoints the
\* plan has on the source's frame indices.
C32_EndpointsRescaledOnce ==
    LET OnSource == InitSegmentConfigList(plan_in.configured,
                                          plan_in.first, plan_in.last)
        Once(list) == [ i \in DOMAIN list |->
                          <<MatchOutputFps(list[i].first_frame_index, plan_in.fps),
                            MatchOutputFps(list[i].last_frame_index, plan_in.fps)>> ]
    IN  (plan_pc = "issued" /\ plan_in.fps.src # plan_in.fps.out)
            => Once(plan_list) = Once(OnSource)

\* C4 (SegTamperSpec): a run skips a shard only if the shard's output file
\* exists; a shard whose file was deleted is encoded again.
C4_SkipOnlyIfFileExists == seg_pc \in SegRunning => skipped \subseteq disk_gop

\* C5 (SegTamperSpec): after the status entry of a completed shard was
\* deleted, the next run does not end in the KeyError of the missing entry
\* (it encodes the shard again and completes).
C5_EntryDeletedReencodes ==
    (tamper.kind = "entry" /\ ~HasOverlap(seg_cfg.configured))
        => fail_reason # "KeyError"

\* C6 (SegSpec): the run after a crash encodes no shard that was marked done
\* when it started, encodes no shard twice, and is not stopped by the state
\* the crash left behind (only the muxer or starting the encoder can fail it).
C6_ResumeAfterCrash ==
    (prev_end = "crashed" /\ ~HasOverlap(seg_cfg.configured)) =>
        /\ Range(encode_log) \cap done_at_start = {}
        /\ \A i \in DOMAIN encode_log : \A j \in DOMAIN encode_log :
               i # j => encode_log[i] # encode_log[j]
        /\ seg_pc = "failed" => fail_reason \in {"RuntimeError", "OSError"}

\* C7 (SegSpec): whenever the process is killed, every status file on disk is
\* a complete status, the previous one or the new one, never a cut one.
C7_StatusFileNeverTruncated ==
    seg_pc = "crashed" => \A d \in DOMAIN disk_status : disk_status[d].complete

\* C8 (SegSpec): a shard is marked done in a status file on disk only after
\* its encode has succeeded, and when an encode begins every shard encoded
\* before it in the run is marked done on disk.
C8_StatusAfterEachShard ==
    /\ DoneOnDisk \subseteq ever_encoded
    /\ seg_pc = "encode" => Range(encode_log) \subseteq DoneOnDisk

\* C8: an encode begins after an earlier shard of the run was encoded.
C8_Witness == seg_pc = "encode" /\ encode_log # <<>>

\* C9 (SegSpec): an encode whose command was restarted MaxRestart times is
\* not running the command again: the bound is reached and it has failed.
C9_BoundedRestarts == restart_cnt = MaxRestart => seg_pc # "encode"

\* C10 (SegSpec): with two configured intervals that share a frame index no
\* shard is ever encoded.
C10_OverlapRejected == HasOverlap(seg_cfg.configured) => ever_encoded = {}

\* The output paths of every shard of one entry of the plan.
EntryPaths(e) ==
    LET f == MatchOutputFps(e.first_frame_index, seg_cfg.fps)
        l == MatchOutputFps(e.last_frame_index, seg_cfg.fps)
    IN  { GopFilepath(GopCacheDir(f, l), sh)
          : sh \in Range(ShardsOfInterval(f, l, seg_cfg.gop_frame_cnt)) }

\* The output paths of every shard of the plan of the run.
PlanShardPaths == UNION { EntryPaths(seg_plan[i]) : i \in DOMAIN seg_plan }

EntryPathSeq(e) ==
    LET f   == MatchOutputFps(e.first_frame_index, seg_cfg.fps)
        l   == MatchOutputFps(e.last_frame_index, seg_cfg.fps)
        shs == ShardsOfInterval(f, l, seg_cfg.gop_frame_cnt)
    IN  [ k \in DOMAIN shs |-> GopFilepath(GopCacheDir(f, l), shs[k]) ]

\* The output paths of the shards of the plan from entry i on, in the order
\* _transcode_configured_segment visits them.
RECURSIVE PlanPathSeq(_)
PlanPathSeq(i) ==
    IF i > Len(seg_plan) THEN <<>>
    ELSE EntryPathSeq(seg_plan[i]) \o PlanPathSeq(i + 1)

\* C12 (SegSpec): shards are encoded one at a time in the plan's order (when
\* the encode of a shard runs, every shard before it in the plan is marked
\* done on disk), and gop_muxer is invoked only when every shard of every
\* interval is marked done and its output is on disk.
C12_SequentialThenStitch ==
    /\ seg_pc = "encode" =>
           \E k \in DOMAIN PlanPathSeq(1) :
               /\ PlanPathSeq(1)[k] = CurPath
               /\ \A j \in 1..(k - 1) : PlanPathSeq(1)[j] \in DoneOnDisk
    /\ seg_pc = "merge" =>
           /\ PlanShardPaths \subseteq DoneOnDisk
           /\ PlanShardPaths \subseteq disk_gop

\* C12: gop_muxer is invoked for a plan of several intervals.
C12_Witness ==
    /\ seg_pc = "merge"
    /\ Len(seg_plan) >= 2
    /\ Cardinality(PlanShardPaths) >= 2

\* C13 (SegSpec): until gop_muxer has succeeded and the run has cleaned up,
\* the output of every shard ever encoded is on disk; in particular after a
\* failed encode or a failed gop_muxer.
C13_ShardsKeptUntilStitched == seg_pc # "done" => ever_encoded \subseteq disk_gop

\* C13: gop_muxer has failed with shard outputs produced.
C13_Witness ==
    /\ seg_pc = "failed"
    /\ fail_reason = "RuntimeError"
    /\ ever_encoded # {}

\* The five sub-flows of a title.
AllFlows == {"subtitle", "chapter", "attachment", "video", "audio"}

\* C14 (Spec): _multiplex_all starts only when the subtitle, chapter,
\* attachment, video and audio sub-flows have all ended; _delete_cache_file
\* runs only after _multiplex_all succeeded; transcode() returns only after
\* _delete_cache_file.
C14_MuxCleanDoneOrder ==
    /\ (main_pc = "multiplex" \/ mux_state # "none") => flow_ended = AllFlows
    /\ (main_pc = "delete_cache" \/ cleaned) => mux_state = "ok"
    /\ main_pc = "done" => cleaned

\* C14: a threaded title has returned from transcode().
C14_Witness == main_pc = "done" /\ pipe_cfg.thread_bool /\ mux_state = "ok"

\* C16: when a stage of the title pipeline fails, the title's temp files are
\* deleted before the failure leaves transcode(): at the exception no file
\* of _remove_filepath_set is left on disk.
C16_FailureReleasesTempFiles ==
    main_pc = "error" => cache_files \subseteq NotRegistered

\* C19: a non-zero exit of the encoder command is reported as a failure: the
\* encoder's transcode() returns an output path only after an exit of zero.
C19_NonZeroExitIsFailure == encode_returned => encoder_exit = "zero"

\* C20: the file of every TrackFile produced in the title pipeline is on disk
\* from its production until the pipeline completes with its clean-up, so at
\* every read by a later stage or by _multiplex_all.
C20_TrackFilesExist == ~cleaned => track_files \subseteq cache_files

C20_Witness ==
    /\ main_pc = "multiplex"
    /\ pipe_cfg.thread_bool
    /\ flow_error = {}
    /\ {"subtitle", "chapter", "video_track", "video_encoded", "audio_track",
        "audio_transcoded"} \subseteq track_files

\* C21: after the clean-up no file of the remove-set is on disk and nothing
\* else was deleted: the output, the input files and the encoder's logs are
\* still there.
C21_CleanDeletesOnlyRemoveSet ==
    cleaned =>
        /\ cache_files \subseteq NotRegistered
        /\ {"input_video", "other_input", "output"} \subseteq kept_files
        /\ encoder_exit # "none" => "encoder_log" \in kept_files

\* C22: the muxer is handed the video track, then the audio tracks in the
\* order of audio_prior_option, then the subtitle tracks in the order of
\* subtitle_prior_option: the list is a function of the configuration alone,
\* whatever the run and the interleaving of the threads.
C22_MuxTrackOrder ==
    track_info_list # <<>> =>
        track_info_list =
            <<"video">>
                \o (IF pipe_cfg.audio_prior_option = "internal"
                    THEN <<"internal_audio", "external_audio">>
                    ELSE <<"external_audio", "internal_audio">>)
                \o (IF pipe_cfg.subtitle_prior_option = "internal"
                    THEN <<"internal_subtitle", "external_subtitle">>
                    ELSE <<"external_subtitle", "internal_subtitle">>)

C22_Witness ==
    /\ pipe_cfg.thread_bool
    /\ mux_state = "ok"
    /\ track_info_list = <<"video", "external_audio", "internal_audio",
                           "internal_subtitle", "external_subtitle">>

\* C29: in threaded mode, when a sub-flow thread has ended in an error, the
\* muxer is not run and transcode() does not return an output.
C29_ThreadErrorFailsTitle ==
    (pipe_cfg.thread_bool /\ flow_error # {}) =>
        /\ mux_state # "ok"
        /\ track_info_list = <<>>
        /\ main_pc # "done"

\* C30: in threaded mode, under a fair scheduler, the polling loop of the
\* main thread ends: the audio thread is started, and the video and the
\* audio thread are both joined, whether the video sub-flow fails or not.
C30_PollTerminatesAndJoins ==
    /\ (pipe_cfg.thread_bool /\ main_pc = "poll_acquire") ~> (audio_pc # "idle")
    /\ (pipe_cfg.thread_bool /\ main_pc = "poll_acquire") ~> (main_pc = "multiplex")

\* ---- the batch of missions

\* the missions the second loop has entered
Entered == {i \in DOMAIN mission_state :
               mission_state[i] \in {"started", "tools", "encoding", "done"}
               \/ (mission_state[i] = "raised" /\ batch_exc # "RangeError")}

\* C15: if a mission fails at run time (a non-configuration error), every
\* subsequent mission of the batch is still run: transcode_all_missions does
\* not end while a validated mission has not been entered.
C15_FailedMissionDoesNotStopBatch ==
    (batch_pc \in {"done", "error"} /\ batch_exc = "ChildProcessError")
        => \A i \in DOMAIN missions : mission_state[i] # "validated"

C18_ConfigErrorsBeforeAnyWork ==
    batch_exc \in {"RangeError", "MissTemplateError"} => tools_run = {}

\* ---- the shard cache directories

\* C26: after a successful stitch the cleanup has deleted every shard output
\* and has left in place the script and the log of every shard that was
\* encoded.
C26_CleanupKeepsLogsAndScripts ==
    seg_pc = "done" =>
        /\ disk_gop = {}
        /\ \A p \in ever_encoded :
               {<<p, ".vpy">>, <<p, ".csv">>} \subseteq disk_aux

C26_Witness ==
    /\ seg_pc = "done"
    /\ Cardinality(ever_encoded) >= 2
    /\ \A p \in ever_encoded : {<<p, ".vpy">>, <<p, ".csv">>} \subseteq disk_aux

\* the unknown keys of a status file, each with the value json.loads gives
LoadedExtra(file) == { <<kv[1], JsonLoads(kv[2])>> : kv \in file.extra }

\* C27: the keys the encoder does not know go from the loaded status file
\* into self._status_dict with their values, nothing changes them while the
\* shards of the interval are encoded, and each rewrite of the status file
\* after a shard writes them back with the same values.
C27_UnknownKeysPreserved ==
    [][ /\ (seg_pc = "interval" /\ seg_pc' = "segment") =>
               status_dict'.extra = LoadedExtra(disk_status[CurDir])
        /\ (seg_pc \in {"segment", "encode", "mark", "save_write"}
               /\ seg_pc' \in {"segment", "encode", "mark", "save_write"}) =>
               status_dict'.extra = status_dict.extra
        /\ (seg_pc = "save_write" /\ seg_pc' = "segment") =>
               LoadedExtra(disk_status'[CurDir]) = status_dict.extra ]_vars

C27_Witness ==
    /\ seg_pc = "segment"
    /\ tamper.kind = "key"
    /\ tamper.path[2] = <<"1", ".", "5", "0">>
    /\ status_dict.extra = {<<"note", [type |-> "float", repr |-> <<"1", ".", "5">>]>>}
    /\ disk_status[CurDir].extra = {<<"note", <<"1", ".", "5">>>>}

\* C31: a shard is skipped on the word of a status only when that status
\* was recorded with the gop_frame_cnt of the current run.
C31_StatusOfSameGopOnly ==
    (/\ seg_pc = "segment"
     /\ frame_index <= CurLast
     /\ CurShard \in DOMAIN status_dict.segment_transcode_bool_dict
     /\ status_dict.segment_transcode_bool_dict[CurShard])
        => status_dict.gop_frame_cnt = seg_cfg.gop_frame_cnt

\* ---- the functions of a string

\* C25: for all non-negative A and B, "A~B" expands to A, A+-1, ..., B, both
\* ends included, stepping by the sign of B - A; A = B gives [A].
C25_EpisodeListExpansion ==
    \A a, b \in 0..MaxEpisode :
        (fn_kind = "episode" /\ fn_arg = EpisodeStr(a, b) /\ fn_pc # "new") =>
            /\ fn_pc = "applied"
            /\ Len(fn_res[1]) = (IF a <= b THEN b - a ELSE a - b) + 1
            /\ \A i \in DOMAIN fn_res[1] :
                   fn_res[1][i] = IF a <= b THEN a + (i - 1) ELSE a - (i - 1)

C25_Witness ==
    /\ fn_kind = "episode"
    /\ fn_arg = <<"3", "~", "1">>
    /\ fn_res = << <<3, 2, 1>> >>

\* C28: frame-rate normalization is idempotent: normalizing a normalized
\* frame rate gives it back, for the fixups alone and for the whole path to
\* the reduced fraction.
C28_FpsNormalizeIdempotent ==
    fn_kind = "fps" =>
        /\ FixupFrameRate(FixupFrameRate(fn_arg)) = FixupFrameRate(fn_arg)
        /\ fn_pc = "reapplied" => fn_res[2] = fn_res[1]

C28_Witness ==
    /\ fn_kind = "fps"
    /\ fn_pc = "reapplied"
    /\ fn_arg = Frac(23976, 1000)
    /\ fn_res[1] = Frac(24000, 1001)

\* ---- the muxer with a valid mark

\* C23: with add_valid_mark, a file under the marked name exists only as the
\* renamed output of a mux run that ended successfully, so it is whole; no
\* unmarked file of that name is there when muxing starts; and the path a
\* call returns never holds a half-finished output.
C23_ValidMarkOnlyAfterSuccess ==
    /\ valid_output_file \in {"none", "complete"}
    /\ (add_valid_mark_bool /\ mux_pc \in {"running", "exited"}) =>
           found_at_start = "none"
    /\ mux_result.end = "returned" => mux_result.file = "complete"

C23_Witness ==
    /\ mux_calls = 2
    /\ mux_pc = "idle"
    /\ add_valid_mark_bool
    /\ mux_result = [end |-> "returned", path |-> "valid", file |-> "complete"]
    /\ valid_output_file = "complete"
    /\ output_file = "none"

\* ---- the series

\* C33: a listed episode that a subtitle or an audio source lacks gives a
\* warning and stops nothing, and when a listed episode has no video the
\* series ends in an error with no episode transcoded.
C33_MissingVideoFatalBeforeAny ==
    /\ (series_pc \in {"loop", "done", "failed"}
            /\ EpisodeMismatch(subtitle_info_list))
           => "subtitles" \in series_warnings
    /\ (series_pc \in {"loop", "done", "failed"}
            /\ EpisodeMismatch(audio_info_list))
           => "audios" \in series_warnings
    /\ (\A k \in DOMAIN episode_list : episode_list[k] \in video_info)
           => series_exc \in {"", "ChildProcessError"}
    /\ (\E k \in DOMAIN episode_list : episode_list[k] \notin video_info)
           => /\ series_done = <<>>
              /\ series_pc # "done"

\* ---- the paths of a batch

\* the missions the first loop has decided on
CheckDecided ==
    check_accepted \cup (IF check_pc = "raised" THEN {check_i} ELSE {})

\* C34: a mission whose input file does not exist is accepted by the
\* validation exactly when its input path is the output path of a mission
\* that comes before it in the batch; the outputs of the mission itself and
\* of the missions after it do not count.
C34_InputFromEarlierOutput ==
    \A i \in CheckDecided :
        AbsPath(check_missions[i].input) \notin check_disk =>
            (i \in check_accepted <=>
                \E j \in 1..(i - 1) :
                    AbsPath(check_missions[j].output)
                        = AbsPath(check_missions[i].input))

C34_Witness ==
    /\ check_pc = "validated"
    /\ check_accepted = {1, 2}
    /\ check_disk = {"a"}
    /\ check_missions[1] = [input |-> <<"rel", "a">>, output |-> <<"abs", "b">>]
    /\ check_missions[2] = [input |-> <<"rel", "b">>, output |-> <<"rel", "a">>]

\* ---- the opus transcode

\* C35: when transcode_audio_opus has ended and the caller's input file is
\* gone, the call has returned, delete_input_file_bool was set and the input
\* is not the file at the output path; after a call that raised the input
\* file is there.
C35_InputDeletedOnlyOnSuccess ==
    (opus_pc \in {"returned", "raised"} /\ "in" \notin opus_files)
        => /\ opus_pc = "returned"
           /\ opus_arg.delete_input_file_bool
           /\ OpusOutputFilepath # "in"

\* ---- the frame rate of a CFR output

\* C39 as stated: for output_fps "Nfps" the frame rate of the output is
\* N*1000/1001 when the denominator of the source rate is 1001 and N/1 for
\* every other source rate.
C39_RescaledForEverySource ==
    \A f \in SourceFps, n \in OutputFpsN :
        (/\ fn_kind = "output_fps"
         /\ fn_pc # "new"
         /\ fn_arg.original_fps = Frac(f[1], f[2])
         /\ fn_arg.output_fps = Str(n) \o <<"f", "p", "s">>)
            => /\ fn_pc = "applied"
               /\ fn_res[1] \in (IF f[2] = 1001 THEN {Frac(n * 1000, 1001)}
                                 ELSE {Str(n), Frac(n, 1)})

\* C39: for output_fps "Nfps" the frame rate of the output is N*1000/1001
\* when the denominator of the source rate is 1001 and N when it is 1; for
\* a source rate of any other denominator the call raises ValueError.
C39_RescaledOrRejected ==
    \A f \in SourceFps, n \in OutputFpsN :
        (/\ fn_kind = "output_fps"
         /\ fn_pc # "new"
         /\ fn_arg.original_fps = Frac(f[1], f[2])
         /\ fn_arg.output_fps = Str(n) \o <<"f", "p", "s">>)
            => CASE f[2] = 1001 -> /\ fn_pc = "applied"
                                   /\ fn_res[1] = Frac(n * 1000, 1001)
                 [] f[2] = 1 -> /\ fn_pc = "applied"
                                /\ fn_res[1] = Str(n)
                 [] OTHER -> fn_pc = "raised"

\* A 24000/1001 source with output_fps "60fps" has given 60000/1001.
C39_Witness ==
    /\ fn_kind = "output_fps"
    /\ fn_pc = "applied"
    /\ fn_arg.original_fps = Frac(24000, 1001)
    /\ fn_arg.output_fps = <<"6", "0", "f", "p", "s">>
    /\ fn_res = << Frac(60000, 1001) >>

\* ---- the order of a track list

\* C38: resort with an order list shorter than src returns the elements of
\* src, each as often as src holds it, and the elements at the positions the
\* order list does not reach are the tail of the result, in source order.
C38_UnspecifiedKeepSourceOrderAtTail ==
    (/\ fn_kind = "resort"
     /\ fn_pc # "new"
     /\ Len(fn_arg.order_list) < Len(fn_arg.src))
        => LET src == fn_arg.src
               k == Len(fn_arg.order_list)
               n == Len(src)
           IN  /\ fn_pc = "applied"
               /\ Len(fn_res[1]) = n
               /\ \A x \in {"a", "b", "c"} :
                      Cardinality(Positions(fn_res[1], x))
                          = Cardinality(Positions(src, x))
               /\ SubSeq(fn_res[1], k + 1, n) = SubSeq(src, k + 1, n)

\* C40: resort raises whenever order_list is not an arrangement of
\* 0..len(order_list)-1.
C40_RaisesOnBadOrderList ==
    (/\ fn_kind = "resort"
     /\ fn_pc # "new"
     /\ \E index \in 0..(Len(fn_arg.order_list) - 1) :
            \A p \in DOMAIN fn_arg.order_list : fn_arg.order_list[p] # index)
        => fn_pc = "raised"

\* ---- the return code of the Matroska tools

\* C37: when mkvmerge or mkvextract exits with code 1 the call returns the
\* path of its output, as it does for code 0; when it exits with any other
\* non-zero code the call ends in an exception and returns no path.
C37_ExitCodeOneIsSuccess ==
    [][ /\ (mux_pc = "exited" /\ mux_pc' = "idle" /\ mux_result'.end # "killed")
            => /\ return_code = 1
                   => /\ mux_result'.end = "returned"
                      /\ mux_result'.path \in {"output", "valid"}
                      /\ mux_result'.file = "complete"
               /\ return_code \notin {0, 1}
                   => /\ mux_result'.end = "raised"
                      /\ mux_result'.path = ""
        /\ (extract_pc = "exited" /\ extract_pc' # "exited")
            => /\ extract_rc = 1
                   => /\ extract_pc' = "returned"
                      /\ extract_result'.path = "output"
               /\ extract_rc \notin {0, 1}
                   => /\ extract_pc' = "raised"
                      /\ extract_result'.path = ""
      ]_vars

\* Both tools have exited with code 1 and both calls have returned a path.
C37_Witness ==
    /\ mux_pc = "idle"
    /\ return_code = 1
    /\ mux_result.end = "returned"
    /\ mux_result.file = "complete"
    /\ extract_pc = "returned"
    /\ extract_rc = 1
    /\ extract_result.path = "output"

\* ---- the input paths of a title

\* C36: when shorten_inputfile_paths has returned, every input whose path
\* was longer than 255 characters is used under a path that is shorter and
\* has at most 255 characters; and every copy made in the cache directory,
\* also when the method raised, is in the remove-set.
C36_ShortenedPaths ==
    /\ shorten_pc = "done" =>
           \A kind \in DOMAIN input_paths :
               PathLen(input_paths[kind]) > max_path_length =>
                   /\ PathLen(used_paths[kind]) < PathLen(input_paths[kind])
                   /\ PathLen(used_paths[kind]) <= max_path_length
    /\ shorten_pc \in {"done", "raised"} =>
           cache_copies \subseteq remove_filepath_set

====
